---- MODULE Spec2Model ----
(***************************************************************************)
(* AnimationManager of animated_widgets_pack/animations.py: a registry of  *)
(* running animations keyed by animation id, one runner thread per         *)
(* animation (_animation_loop), and the calls animate / stop_animation     *)
(* made by a caller thread.  The registry is a plain dict without a lock,  *)
(* so every statement of the caller and of the runners is a separate step. *)
(*                                                                         *)
(* Time is in ticks.  A runner reads the wall clock time.time() at every   *)
(* tick; the elapsed time it computes is any value the clock allows: not   *)
(* less than at its previous tick, unless the system clock was set back.   *)
(* Values are exact rationals: progress is a numerator over the duration,  *)
(* eased progress and values are numerators over duration^3.               *)
(*                                                                         *)
(* Spec is the program with every fault of its environment (clock set      *)
(* back, update_callback raising); SpecSteady is the program without       *)
(* them; SpecSingle is SpecSteady for a caller that uses one id.           *)
(* SpecSentinel, SpecReverse, SpecStopAll, SpecInvalid and SpecCallbacks   *)
(* are the program without those faults for one kind of caller each:       *)
(* repeat counts below one, auto-reversed and repeated animations,         *)
(* stop_all_animations, a zero duration, and completion callbacks that     *)
(* raise or start another animation.                                       *)
(*                                                                         *)
(* SpecEasing is one call of an easing function of EasingFunctions or of   *)
(* AnimatedWidget with the argument 0 or 1, computed in IEEE 754 binary64  *)
(* as Python computes it.  SpecWidget is an AnimatedWidget of core.py with *)
(* its property threads (animate_property, stop_all_animations), one step  *)
(* per statement that another thread can observe; SpecWidgetStop is the    *)
(* same widget with animations enabled, one target per attribute and a     *)
(* fair scheduler.  SpecButton is an AnimatedButton of buttons.py driven   *)
(* by its event handlers, set_state, enable, disable and bind_callback,    *)
(* all on the GUI thread; of AnimationManager.animate it records only      *)
(* which animations a handler starts.                                      *)
(*                                                                         *)
(* SpecBystander is the steady manager with calls on one id beside an      *)
(* animation of another id; SpecFair is the manager under a fair scheduler *)
(* and a clock that advances, with callbacks that raise.  SpecTrigger is   *)
(* bind_callback and the loop of trigger_callback of core.py over          *)
(* callbacks that return or raise; SpecSize is set_size of core.py with    *)
(* the property thread it starts.                                          *)
(***************************************************************************)
EXTENDS Integers, FiniteSets, Sequences, TLC

\* ---- bounds of the model ----
MaxThreads == 2
MaxSkew == 1

\* ---- animation ids and configurations used by the caller ----
Ids == {"x", "y"}

NoThread == 0

Threads == 1..MaxThreads

\* AnimationConfig plus the start/end values and the completion callback
\* handed to animate(): completion_callback is whether one is given,
\* completion_raises whether it raises, chain the id it animates by a call of
\* animate() of its own ("" if it makes none).
CfgOnce ==
  [duration |-> 2, easing |-> "linear", auto_reverse |-> FALSE,
   repeat_count |-> 1, delay |-> 0, start_value |-> 0, end_value |-> 3,
   completion_callback |-> TRUE,
   completion_raises |-> FALSE, chain |-> ""]

CfgPing ==
  [duration |-> 1, easing |-> "ease_out_cubic", auto_reverse |-> TRUE,
   repeat_count |-> 2, delay |-> 1, start_value |-> 3, end_value |-> 0,
   completion_callback |-> TRUE,
   completion_raises |-> FALSE, chain |-> ""]

Configs == {CfgOnce, CfgPing}

\* A ping-pong animation of three iterations with an easing that is not
\* symmetric, and a repeated animation without auto-reverse.
CfgSwing ==
  [duration |-> 2, easing |-> "ease_in_quad", auto_reverse |-> TRUE,
   repeat_count |-> 3, delay |-> 0, start_value |-> 0, end_value |-> 3,
   completion_callback |-> TRUE,
   completion_raises |-> FALSE, chain |-> ""]

CfgTwice ==
  [duration |-> 1, easing |-> "linear", auto_reverse |-> FALSE,
   repeat_count |-> 2, delay |-> 1, start_value |-> 0, end_value |-> 3,
   completion_callback |-> TRUE,
   completion_raises |-> FALSE, chain |-> ""]

\* An animation whose completion callback raises, one whose completion
\* callback animates "x" (CheckBox: state_scale, then state_scale_return),
\* and the animation that callback starts.
CfgBoom ==
  [duration |-> 1, easing |-> "linear", auto_reverse |-> FALSE,
   repeat_count |-> 1, delay |-> 1, start_value |-> 0, end_value |-> 3,
   completion_callback |-> TRUE,
   completion_raises |-> TRUE, chain |-> ""]

CfgChain ==
  [duration |-> 1, easing |-> "linear", auto_reverse |-> FALSE,
   repeat_count |-> 1, delay |-> 0, start_value |-> 0, end_value |-> 3,
   completion_callback |-> TRUE,
   completion_raises |-> FALSE, chain |-> "x"]

CfgReturn ==
  [duration |-> 1, easing |-> "linear", auto_reverse |-> FALSE,
   repeat_count |-> 1, delay |-> 0, start_value |-> 3, end_value |-> 0,
   completion_callback |-> FALSE,
   completion_raises |-> FALSE, chain |-> ""]

\* An animation whose duration is not positive.
CfgZero ==
  [duration |-> 0, easing |-> "linear", auto_reverse |-> FALSE,
   repeat_count |-> 1, delay |-> 1, start_value |-> 0, end_value |-> 3,
   completion_callback |-> TRUE,
   completion_raises |-> FALSE, chain |-> ""]

\* A repeating auto-reverse animation without a completion callback.
CfgBeat ==
  [duration |-> 1, easing |-> "ease_in_out_quad", auto_reverse |-> TRUE,
   repeat_count |-> 2, delay |-> 0, start_value |-> 0, end_value |-> 3,
   completion_callback |-> FALSE,
   completion_raises |-> FALSE, chain |-> ""]

\* The pulse of ProgressBar._start_pulse_animation: repeat_count = -1 is
\* meant as "repeat until stopped".
CfgPulse ==
  [duration |-> 1, easing |-> "ease_in_out_quad", auto_reverse |-> TRUE,
   repeat_count |-> 0 - 1, delay |-> 0, start_value |-> 0, end_value |-> 3,
   completion_callback |-> TRUE,
   completion_raises |-> FALSE, chain |-> ""]

\* The other value read as "repeat until stopped": repeat_count = 0.
CfgLoop ==
  [duration |-> 1, easing |-> "linear", auto_reverse |-> FALSE,
   repeat_count |-> 0, delay |-> 1, start_value |-> 0, end_value |-> 3,
   completion_callback |-> TRUE,
   completion_raises |-> FALSE, chain |-> ""]

VARIABLES
  active_animations,  \* self._active_animations: id -> thread (NoThread: no key)
  nThreads,           \* number of runner threads created so far
  thr,                \* the runner threads: position, arguments, locals, do_run
  caller,             \* the calling thread: position inside animate/stop_animation
  stoppedIds          \* ids whose last call was a stop_animation that returned

\* What lies outside the AnimationManager: the easing functions called on
\* their own.
VARIABLES
  easing_call         \* one call f(t) of an easing function and what it returned

\* An AnimatedWidget of core.py and its property animations.
VARIABLES
  enable_animations,   \* self.config.enable_animations
  current_animations,  \* self._current_animations: property name -> thread
  nPropertyThreads,    \* number of property threads created so far
  pthr,                \* the property threads: position, arguments, do_run
  fields,              \* the animated attributes of the widget (setattr)
  appearance_updates,  \* number of calls of update_appearance()
  wcaller              \* the thread calling the widget: position, calls made

widgetVars == <<enable_animations, current_animations, nPropertyThreads, pthr,
                fields, appearance_updates, wcaller>>

\* An AnimatedButton of buttons.py: its state, its callbacks and what the
\* last call made on it did.
VARIABLES
  widget_state,   \* self._widget_state
  is_pressed,     \* self._is_pressed
  callbacks,      \* self._callbacks: event type -> number of callbacks bound
  button_config,  \* self._gui_framework and self.style.hover_lift
  last_call,      \* the last call: callbacks it invoked, animations it started
  cycle           \* how far the caller is into a hover/press/click cycle

buttonVars == <<widget_state, is_pressed, callbacks, button_config, last_call,
                cycle>>

\* The callbacks of an AnimatedWidget of core.py, a trigger_callback call,
\* the size in its config and a set_size call.
VARIABLES
  bound_callbacks,  \* self._callbacks: event type -> what each callback does
  trigger,          \* the trigger_callback call: position in the loop, output
  widget_config,    \* self.config.width and self.config.height
  size_call,        \* the set_size call: arguments, locals, position
  update_callback   \* the update_callback attribute of each Thread object

coreVars == <<bound_callbacks, trigger, widget_config, size_call,
              update_callback>>

outsideVars == <<easing_call, widgetVars, buttonVars, coreVars>>

\* No easing function has been called on its own.
NoEasingCall == [pc |-> "none"]

\* ---- bounds of the widget model ----
MaxCalls == 2
Frames == 2

\* The attributes a caller animates, and the property threads.
Properties == {"opacity", "width"}

\* The property names of self._current_animations: those and the name
\* set_size animates.
Attributes == Properties \cup {"size_animation"}

PropertyThreads == 1..MaxCalls

\* An attribute that was never assigned: a record of the shape of a float
\* that is no float (the sign of a float is 1 or -1).
Unset == [sign |-> 0, mant |-> <<>>, exp |-> 0]

\* A Thread object that does not exist yet.
NoPropertyThread ==
  [pc |-> "none", property_name |-> "", request |-> "", do_run |-> FALSE,
   frame |-> -1]

\* The caller of the widget between two calls; returned is the call that
\* returned last.
IdleWidgetCaller ==
  [pc |-> "idle", returned |-> "", property_name |-> "", request |-> "",
   calls |-> 0]

\* A widget after __init__ that nobody has called yet.
WidgetIdle ==
  /\ enable_animations = TRUE
  /\ current_animations = [p \in Attributes |-> NoThread]
  /\ nPropertyThreads = 0
  /\ pthr = [i \in PropertyThreads |-> NoPropertyThread]
  /\ fields = [p \in Attributes |-> Unset]
  /\ appearance_updates = 0
  /\ wcaller = IdleWidgetCaller

\* ---- bound of the button model ----
MaxCallbacks == 2

\* The event types of self._callbacks that a button triggers.
Events == {"click", "hover_enter", "hover_leave", "state_changed"}

\* No call has been made on the button yet.
NoCall ==
  [op |-> "", arg |-> "", delivered |-> <<>>, animations |-> <<>>,
   appearance_updates |-> 0]

\* The caller is not inside a cycle of events.
NoCycle == [step |-> 0, clicks |-> <<>>]

\* No trigger_callback call has been made.
NoTrigger ==
  [pc |-> "idle", event_type |-> "", index |-> 0, called |-> <<>>,
   printed |-> 0]

\* No set_size call has been made.
NoSizeCall ==
  [pc |-> "idle", width |-> 0, height |-> 0, animate |-> FALSE,
   start_width |-> 0, start_height |-> 0]

\* A Thread object without an update_callback attribute.
NoUpdateCallback ==
  [bound |-> FALSE, width |-> 0, height |-> 0, start_width |-> 0,
   start_height |-> 0]

\* WidgetConfig(): width = 120, height = 40.
DefaultSize == [width |-> 120, height |-> 40]

\* A button after __init__: not rendered, default style.
ButtonIdle ==
  /\ widget_state = "normal"
  /\ is_pressed = FALSE
  /\ callbacks = [e \in Events |-> 0]
  /\ button_config = [gui_framework |-> "none", hover_lift |-> 2]
  /\ last_call = NoCall
  /\ cycle = NoCycle

\* The state of what lies outside the manager while only the manager runs.
\* A widget after __init__ whose callbacks and size nobody has touched.
CoreIdle ==
  /\ bound_callbacks = [e \in Events |-> <<>>]
  /\ trigger = NoTrigger
  /\ widget_config = DefaultSize
  /\ size_call = NoSizeCall
  /\ update_callback = [i \in PropertyThreads |-> NoUpdateCallback]

OutsideIdle ==
  easing_call = NoEasingCall /\ WidgetIdle /\ ButtonIdle /\ CoreIdle

vars == <<active_animations, nThreads, thr, caller, stoppedIds, outsideVars>>

\* ---- easing ----

\* Denominator of eased progress and of values for a duration d.
Den(d) == d * d * d

EaseLinear(p, d) == p * d * d

EaseInQuad(p, d) == p * p * d

EaseOutCubic(p, d) == (d * d * d) - ((d - p) * (d - p) * (d - p))

\* 2 * t * t if t < 0.5 else 1 - pow(-2 * t + 2, 2) / 2
EaseInOutQuad(p, d) ==
  IF 2 * p < d THEN 2 * p * p * d
  ELSE (d * d * d) - (2 * (d - p) * (d - p) * d)

\* self._easing_functions.get(config.easing, EasingFunctions.ease_out_cubic)
EasingFunc(kind, p, d) ==
  CASE kind = "linear" -> EaseLinear(p, d)
    [] kind = "ease_in_quad" -> EaseInQuad(p, d)
    [] kind = "ease_out_cubic" -> EaseOutCubic(p, d)
    [] kind = "ease_in_out_quad" -> EaseInOutQuad(p, d)
    [] OTHER -> EaseOutCubic(p, d)

Min(a, b) == IF a <= b THEN a ELSE b

\* progress = min(elapsed / config.duration, 1.0), as a numerator over duration
Progress(elapsed, d) == Min(elapsed, d)

\* An auto-reverse that flips the raw time before the easing.
EasedProgress_FlipsRawTime(cfg, repeat, p) ==
  IF cfg.auto_reverse /\ repeat % 2 = 1
    THEN EasingFunc(cfg.easing, cfg.duration - p, cfg.duration)
    ELSE EasingFunc(cfg.easing, p, cfg.duration)

\* eased progress after the auto-reverse flip, numerator over Den(d)
EasedProgress(cfg, repeat, p) ==
  LET e == EasingFunc(cfg.easing, p, cfg.duration)
  IN IF cfg.auto_reverse /\ repeat % 2 = 1 THEN Den(cfg.duration) - e ELSE e

\* current_value = start_value + (end_value - start_value) * eased_progress
CurrentValue(cfg, repeat, p) ==
  cfg.start_value * Den(cfg.duration)
    + (cfg.end_value - cfg.start_value) * EasedProgress(cfg, repeat, p)

\* ---- registry queries ----

is_animating(id) == active_animations[id] # NoThread

get_active_count == Cardinality({id \in Ids : active_animations[id] # NoThread})

\* ---- runner threads ----

NoProgress == -100

\* pc is the statement of _animation_loop the thread is at:
\*   "delay"    in time.sleep(config.delay)
\*   "while"    at the test of the while loop (after the first tick: waking
\*              up from time.sleep(frame_duration))
\*   "tick"     the test has passed, the tick has not been computed yet
\*   "cleanup"  at "if animation_id in self._active_animations"
\*   "del"      at "del self._active_animations[animation_id]"
\*   "complete" at "if completion_callback"
\*   "cb_flag", "cb_del", "cb_register": inside completion_callback(), in the
\*              animate() it calls: the two statements of stop_animation
\*              and the creation and registration of the new thread
\*   "done", "crashed": returned, or ended by an uncaught exception
\* progress, value: the last progress computed in this iteration and the
\* last value handed to update_callback.  cancelled: history of the calls.
\* stop_in_delay: a stop_animation that cleared do_run has returned while the
\* thread was in time.sleep(config.delay).  completion_raised: an exception
\* left completion_callback and was caught by the except clause.
IdleThread ==
  [pc |-> "none", id |-> "x", cfg |-> CfgOnce, do_run |-> TRUE,
   repeat |-> 0, progress |-> NoProgress, value |-> 0,
   completed |-> FALSE, cancelled |-> "no", stop_in_delay |-> FALSE,
   completion_raised |-> FALSE]

\* The runner is before or inside its tick loop.
InLoop(t) == t.pc \in {"delay", "while", "tick"}

\* The thread has returned or was ended by an exception.
HasEnded(t) == t.pc \in {"done", "crashed"}

\* t.cancelled is the history of the calls made on the id of runner t since
\* it was registered: "no" none, "called" some stop_animation or animate has
\* begun, "stop" / "replace" the first stop_animation that returned, or
\* animate that registered a successor, while t was in its loop.
Cancel(t, how) ==
  IF t.cancelled \in {"no", "called"} /\ InLoop(t) THEN how ELSE t.cancelled

\* The history of thread t after a stop_animation that cleared its do_run
\* has returned.
Stopped(t) ==
  [t EXCEPT !.cancelled = Cancel(t, "stop"),
            !.stop_in_delay = (@ \/ t.pc = "delay")]

\* The history of thread t after an animate() of its id has registered a
\* new thread.
Replaced(t) ==
  IF InLoop(t) THEN [t EXCEPT !.cancelled = Cancel(t, "replace")]
  ELSE IF ~HasEnded(t) /\ t.cancelled = "no" THEN [t EXCEPT !.cancelled = "called"]
  ELSE t

\* A call on id begins: every runner of id that has not ended remembers it.
Called(id) ==
  [i \in Threads |->
     IF i <= nThreads /\ thr[i].id = id /\ ~HasEnded(thr[i])
        /\ thr[i].cancelled = "no"
       THEN [thr[i] EXCEPT !.cancelled = "called"]
       ELSE thr[i]]

\* Some runner of id is in its loop and has not been told to stop.
LiveInstance(id) ==
  \E i \in 1..nThreads : thr[i].id = id /\ InLoop(thr[i]) /\ thr[i].do_run

\* size: the length of the dict when stop_all_animations began to iterate.
IdleCaller ==
  [pc |-> "idle", op |-> "none", id |-> "x", cfg |-> CfgOnce,
   target |-> NoThread, live |-> FALSE, size |-> 0]

\* A KeyError has left the call op of the caller; live: the id had a live
\* instance when the call began.
RaisedCaller(op, live) ==
  [IdleCaller EXCEPT !.pc = "raised", !.op = op, !.live = live]

\* The caller is between two calls.
CanCall == caller.pc \in {"idle", "raised"}

Init ==
  /\ active_animations = [id \in Ids |-> NoThread]
  /\ nThreads = 0
  /\ thr = [i \in Threads |-> IdleThread]
  /\ caller = IdleCaller
  /\ stoppedIds = {}
  /\ OutsideIdle

\* ---- the caller: stop_animation(animation_id) ----

\* if animation_id in self._active_animations   (stop_animation, first line)
CallStop(id) ==
  /\ CanCall
  /\ IF is_animating(id)
       THEN /\ caller' = [IdleCaller EXCEPT !.pc = "stop_flag", !.op = "stop",
                                            !.id = id, !.live = LiveInstance(id)]
            /\ UNCHANGED stoppedIds
       ELSE /\ caller' = IdleCaller
            /\ stoppedIds' = stoppedIds \cup {id}
  /\ thr' = Called(id)
  /\ UNCHANGED <<active_animations, nThreads>>
  /\ UNCHANGED outsideVars

\* stop_animation's first statement clearing do_run of every runner instead
\* of the one registered under the id.
StopFlag_FlagsEveryRunner ==
  /\ caller.pc = "stop_flag"
  /\ IF active_animations[caller.id] = NoThread
       THEN /\ caller' = RaisedCaller(caller.op, caller.live)
            /\ UNCHANGED thr
       ELSE /\ thr' = [i \in Threads |-> [thr[i] EXCEPT !.do_run = FALSE]]
            /\ caller' = [caller EXCEPT !.pc = "stop_del",
                                        !.target = active_animations[caller.id]]
  /\ UNCHANGED <<active_animations, nThreads, stoppedIds>>
  /\ UNCHANGED outsideVars

\* self._active_animations[animation_id].do_run = False
\* A missing key raises KeyError, which leaves the call.
StopFlag ==
  /\ caller.pc = "stop_flag"
  /\ IF active_animations[caller.id] = NoThread
       THEN /\ caller' = RaisedCaller(caller.op, caller.live)
            /\ UNCHANGED thr
       ELSE /\ thr' = [thr EXCEPT ![active_animations[caller.id]].do_run = FALSE]
            /\ caller' = [caller EXCEPT !.pc = "stop_del",
                                        !.target = active_animations[caller.id]]
  /\ UNCHANGED <<active_animations, nThreads, stoppedIds>>
  /\ UNCHANGED outsideVars

\* stop_animation that only clears do_run and leaves the registry entry.
StopDel_KeepsEntry ==
  /\ caller.pc = "stop_del"
  /\ IF caller.op = "stop"
       THEN /\ caller' = IdleCaller
            /\ stoppedIds' = stoppedIds \cup {caller.id}
            /\ thr' = [thr EXCEPT ![caller.target] = Stopped(@)]
       ELSE /\ caller' = [caller EXCEPT !.pc = "register"]
            /\ UNCHANGED <<stoppedIds, thr>>
  /\ UNCHANGED <<active_animations, nThreads>>
  /\ UNCHANGED outsideVars

\* del self._active_animations[animation_id]
\* then stop_animation returns, to its caller or into animate.
StopDel ==
  /\ caller.pc = "stop_del"
  /\ IF active_animations[caller.id] = NoThread
       THEN /\ caller' = RaisedCaller(caller.op, caller.live)
            /\ UNCHANGED <<active_animations, thr, stoppedIds>>
       ELSE /\ active_animations' = [active_animations EXCEPT ![caller.id] = NoThread]
            /\ IF caller.op = "stop"
                 THEN /\ caller' = IdleCaller
                      /\ stoppedIds' = stoppedIds \cup {caller.id}
                      /\ thr' = [thr EXCEPT ![caller.target] = Stopped(@)]
                 ELSE /\ caller' = [caller EXCEPT !.pc = "register"]
                      /\ UNCHANGED <<stoppedIds, thr>>
  /\ UNCHANGED nThreads
  /\ UNCHANGED outsideVars

\* ---- the caller: stop_all_animations() ----

\* A call begins that concerns every id.
CalledAll ==
  [i \in Threads |->
     IF i <= nThreads /\ ~HasEnded(thr[i]) /\ thr[i].cancelled = "no"
       THEN [thr[i] EXCEPT !.cancelled = "called"]
       ELSE thr[i]]

\* for thread in self._active_animations.values(): the iterator is created
\* and remembers the length of the dict.
CallStopAll ==
  /\ CanCall
  /\ caller' = [IdleCaller EXCEPT !.pc = "all_next", !.op = "stop_all",
                                  !.size = get_active_count]
  /\ thr' = CalledAll
  /\ UNCHANGED <<active_animations, nThreads, stoppedIds>>
  /\ UNCHANGED outsideVars

\* The registered threads the iterator has not visited yet: a dict keeps
\* its keys in insertion order, which is the order of the threads' creation.
NotVisited ==
  {i \in 1..nThreads :
     i > caller.target /\ \E id \in Ids : active_animations[id] = i}

\* One step of the iterator, and the body thread.do_run = False.
\* A dict whose length has changed since the iterator was created raises
\* RuntimeError, which leaves the call before the clear().
StopAllNext ==
  /\ caller.pc = "all_next"
  /\ IF get_active_count # caller.size
       THEN /\ caller' = RaisedCaller(caller.op, caller.live)
            /\ UNCHANGED thr
       ELSE IF NotVisited = {}
         THEN /\ caller' = [caller EXCEPT !.pc = "all_clear"]
              /\ UNCHANGED thr
         ELSE LET n == CHOOSE i \in NotVisited : \A j \in NotVisited : i <= j
              IN /\ thr' = [thr EXCEPT ![n].do_run = FALSE]
                 /\ caller' = [caller EXCEPT !.target = n]
  /\ UNCHANGED <<active_animations, nThreads, stoppedIds>>
  /\ UNCHANGED outsideVars

\* stop_all_animations that only clears the do_run flags.
StopAllClear_KeepsEntries ==
  /\ caller.pc = "all_clear"
  /\ caller' = [IdleCaller EXCEPT !.op = "stop_all"]
  /\ UNCHANGED <<active_animations, thr, nThreads, stoppedIds>>
  /\ UNCHANGED outsideVars

\* self._active_animations.clear(); stop_all_animations returns.  The
\* caller remembers that its last call was a stop_all_animations.
StopAllClear ==
  /\ caller.pc = "all_clear"
  /\ active_animations' = [id \in Ids |-> NoThread]
  /\ thr' = [i \in Threads |->
               IF \E id \in Ids : active_animations[id] = i
                 THEN [thr[i] EXCEPT !.cancelled = Cancel(thr[i], "stop")]
                 ELSE thr[i]]
  /\ caller' = [IdleCaller EXCEPT !.op = "stop_all"]
  /\ UNCHANGED <<nThreads, stoppedIds>>
  /\ UNCHANGED outsideVars

\* ---- the caller: animate(animation_id, ..., config, completion_callback) ----

\* The animate() calls that have begun and have not created their thread.
Pending ==
  (IF caller.op = "animate" /\ caller.pc \in {"stop_flag", "stop_del", "register"}
     THEN 1 ELSE 0)
  + Cardinality({i \in Threads : thr[i].pc \in {"cb_flag", "cb_del", "cb_register"}})

\* config = config or AnimationConfig(); self.stop_animation(animation_id)
CallAnimate(id, cfg) ==
  /\ CanCall
  /\ nThreads + Pending < MaxThreads
  /\ caller' = [IdleCaller EXCEPT
                  !.pc = IF is_animating(id) THEN "stop_flag" ELSE "register",
                  !.op = "animate", !.id = id, !.cfg = cfg,
                  !.live = LiveInstance(id)]
  /\ stoppedIds' = stoppedIds \ {id}
  /\ thr' = Called(id)
  /\ UNCHANGED <<active_animations, nThreads>>
  /\ UNCHANGED outsideVars

\* for repeat in range(config.repeat_count): start_time = time.time()
\* Thread t with its loop variable set to r: the next iteration begins (no
\* tick of it has run yet), or the loop is left for the clean-up.
ForNext(t, r) ==
  IF r < t.cfg.repeat_count
    THEN [t EXCEPT !.pc = "while", !.repeat = r, !.progress = NoProgress]
    ELSE [t EXCEPT !.pc = "cleanup", !.repeat = 0]

\* The thread a call of animate creates: do_run = True, about to run
\* _animation_loop, which first sleeps for config.delay if that is positive.
NewThread(id, cfg) ==
  LET t == [IdleThread EXCEPT !.id = id, !.cfg = cfg, !.do_run = TRUE]
  IN IF cfg.delay > 0 THEN [t EXCEPT !.pc = "delay"] ELSE ForNext(t, 0)

\* animation_thread = Thread(...); do_run = True;
\* self._active_animations[animation_id] = animation_thread; start()
Register ==
  /\ caller.pc = "register"
  /\ nThreads' = nThreads + 1
  /\ thr' = [i \in Threads |->
              IF i = nThreads + 1 THEN NewThread(caller.id, caller.cfg)
              ELSE IF i <= nThreads /\ thr[i].id = caller.id
                   THEN Replaced(thr[i])
                   ELSE thr[i]]
  /\ active_animations' = [active_animations EXCEPT ![caller.id] = nThreads + 1]
  /\ caller' = IdleCaller
  /\ UNCHANGED stoppedIds
  /\ UNCHANGED outsideVars

\* ---- the runner thread: _animation_loop ----

\* time.sleep(config.delay) returns; the for loop is entered
Delay(i) ==
  /\ thr[i].pc = "delay"
  /\ thr' = [thr EXCEPT ![i] = ForNext(@, 0)]
  /\ UNCHANGED <<active_animations, nThreads, caller, stoppedIds>>
  /\ UNCHANGED outsideVars

\* while getattr(threading.current_thread(), "do_run", True)
\* A false flag ends this iteration only: the for loop goes on.
WhileCheck(i) ==
  /\ thr[i].pc = "while"
  /\ IF thr[i].do_run
       THEN thr' = [thr EXCEPT ![i].pc = "tick"]
       ELSE thr' = [thr EXCEPT ![i] = ForNext(@, @.repeat + 1)]
  /\ UNCHANGED <<active_animations, nThreads, caller, stoppedIds>>
  /\ UNCHANGED outsideVars

\* A thread that has ended: its locals and its do_run attribute are dead.
Ended(t, how) ==
  [t EXCEPT !.pc = how, !.do_run = TRUE, !.progress = NoProgress, !.value = 0,
            !.cfg = CfgOnce]

\* The values elapsed = time.time() - start_time can take in the model.
ElapsedRange(d) == (0 - MaxSkew)..(d + MaxSkew)

\* What the previous tick of this iteration saw of the clock (0 at
\* start_time = time.time()).
LastElapsed(t) == IF t.progress = NoProgress THEN 0 ELSE t.progress

\* if progress >= 1.0: break
AnimationComplete(p, d) == p >= d

\* One tick of thread i that reads elapsed = time.time() - start_time as e:
\* progress, easing, auto-reverse, current_value, update_callback(value);
\* if the callback raises: print, break; otherwise the completion test
\* (break) or the start of time.sleep(frame_duration).
\* With config.duration = 0 the division elapsed / config.duration raises
\* ZeroDivisionError outside the try: the thread ends there.
Tick(i, e, raises) ==
  /\ thr[i].pc = "tick"
  /\ IF thr[i].cfg.duration = 0
       THEN thr' = [thr EXCEPT ![i] = Ended(@, "crashed")]
       ELSE
         LET p == Progress(e, thr[i].cfg.duration)
             v == CurrentValue(thr[i].cfg, thr[i].repeat, p)
             t == [thr[i] EXCEPT !.progress = p, !.value = v]
         IN IF raises \/ AnimationComplete(p, thr[i].cfg.duration)
              THEN thr' = [thr EXCEPT ![i] = ForNext(t, t.repeat + 1)]
              ELSE thr' = [thr EXCEPT ![i] = [t EXCEPT !.pc = "while"]]
  /\ UNCHANGED <<active_animations, nThreads, caller, stoppedIds>>
  /\ UNCHANGED outsideVars

\* A tick whose clock reading is not less than that of the tick before and
\* whose update_callback returns.
TickUpdate(i) ==
  \E e \in ElapsedRange(thr[i].cfg.duration) :
    e >= LastElapsed(thr[i]) /\ Tick(i, e, FALSE)

\* A tick after the system clock was set back: time.time() is the wall
\* clock, and elapsed is less than at the tick before (negative at first).
TickUpdateClockSetBack(i) ==
  \E e \in ElapsedRange(thr[i].cfg.duration) :
    e < LastElapsed(thr[i]) /\ Tick(i, e, FALSE)

\* A tick whose update_callback raises.
TickUpdateRaises(i) ==
  \E e \in ElapsedRange(thr[i].cfg.duration) : Tick(i, e, TRUE)

\* A clean-up that leaves the registry entry to the completion callback.
Cleanup_SkipsDel(i) ==
  /\ thr[i].pc = "cleanup"
  /\ thr' = [thr EXCEPT ![i].pc = "complete"]
  /\ UNCHANGED <<active_animations, nThreads, caller, stoppedIds>>
  /\ UNCHANGED outsideVars

\* if animation_id in self._active_animations
Cleanup(i) ==
  /\ thr[i].pc = "cleanup"
  /\ thr' = [thr EXCEPT ![i].pc = IF is_animating(thr[i].id) THEN "del"
                                  ELSE "complete"]
  /\ UNCHANGED <<active_animations, nThreads, caller, stoppedIds>>
  /\ UNCHANGED outsideVars

\* A clean-up whose del leaves the entry where it is.
CleanupDel_KeepsEntry(i) ==
  /\ thr[i].pc = "del"
  /\ thr' = [thr EXCEPT ![i].pc = "complete"]
  /\ UNCHANGED <<active_animations, nThreads, caller, stoppedIds>>
  /\ UNCHANGED outsideVars

\* del self._active_animations[animation_id]
\* The key is the id, whichever thread is registered under it; a missing key
\* raises KeyError, which ends the thread before the completion callback.
CleanupDel(i) ==
  /\ thr[i].pc = "del"
  /\ IF is_animating(thr[i].id)
       THEN /\ active_animations' = [active_animations EXCEPT ![thr[i].id] = NoThread]
            /\ thr' = [thr EXCEPT ![i].pc = "complete"]
       ELSE /\ thr' = [thr EXCEPT ![i] = Ended(@, "crashed")]
            /\ UNCHANGED active_animations
  /\ UNCHANGED <<nThreads, caller, stoppedIds>>
  /\ UNCHANGED outsideVars

\* The completion callback of thread t calls animate().
Chains(t) == t.cfg.completion_callback /\ t.cfg.chain # ""

\* A completion callback that lets its exception reach the thread.
Complete_Propagates(i) ==
  /\ thr[i].pc = "complete"
  /\ ~Chains(thr[i])
  /\ LET cb == thr[i].cfg.completion_callback
         raises == cb /\ thr[i].cfg.completion_raises
     IN thr' = [thr EXCEPT ![i] =
                  [Ended(@, IF raises THEN "crashed" ELSE "done") EXCEPT
                     !.completed = cb, !.completion_raised = raises]]
  /\ UNCHANGED <<active_animations, nThreads, caller, stoppedIds>>
  /\ UNCHANGED outsideVars

\* if completion_callback: try: completion_callback()
\* except Exception as e: print(...)
\* for a callback that returns or raises without calling animate().
Complete(i) ==
  /\ thr[i].pc = "complete"
  /\ ~Chains(thr[i])
  /\ LET cb == thr[i].cfg.completion_callback
         raises == cb /\ thr[i].cfg.completion_raises
     IN thr' = [thr EXCEPT ![i] =
                  [Ended(@, "done") EXCEPT
                     !.completed = cb, !.completion_raised = raises]]
  /\ UNCHANGED <<active_animations, nThreads, caller, stoppedIds>>
  /\ UNCHANGED outsideVars

\* ---- the runner thread inside a completion callback that calls animate ----

\* The thread whose callback has returned, or has let a KeyError of
\* stop_animation escape into the except clause of _animation_loop.
CallbackDone(t, raised) ==
  [Ended(t, "done") EXCEPT !.completed = TRUE, !.completion_raised = raised]

\* completion_callback() -> self.animate(chain, ...) -> self.stop_animation:
\* if animation_id in self._active_animations
CbCall(i) ==
  /\ thr[i].pc = "complete"
  /\ Chains(thr[i])
  /\ nThreads + Pending < MaxThreads
  /\ thr' = [Called(thr[i].cfg.chain) EXCEPT
               ![i].pc = IF is_animating(thr[i].cfg.chain) THEN "cb_flag"
                         ELSE "cb_register"]
  /\ stoppedIds' = stoppedIds \ {thr[i].cfg.chain}
  /\ UNCHANGED <<active_animations, nThreads, caller>>
  /\ UNCHANGED outsideVars

\* self._active_animations[animation_id].do_run = False
CbStopFlag(i) ==
  /\ thr[i].pc = "cb_flag"
  /\ LET n == active_animations[thr[i].cfg.chain]
     IN IF n = NoThread
          THEN thr' = [thr EXCEPT ![i] = CallbackDone(@, TRUE)]
          ELSE thr' = [thr EXCEPT ![n].do_run = FALSE, ![i].pc = "cb_del"]
  /\ UNCHANGED <<active_animations, nThreads, caller, stoppedIds>>
  /\ UNCHANGED outsideVars

\* del self._active_animations[animation_id]
CbStopDel(i) ==
  /\ thr[i].pc = "cb_del"
  /\ IF active_animations[thr[i].cfg.chain] = NoThread
       THEN /\ thr' = [thr EXCEPT ![i] = CallbackDone(@, TRUE)]
            /\ UNCHANGED active_animations
       ELSE /\ thr' = [thr EXCEPT ![i].pc = "cb_register"]
            /\ active_animations' =
                 [active_animations EXCEPT ![thr[i].cfg.chain] = NoThread]
  /\ UNCHANGED <<nThreads, caller, stoppedIds>>
  /\ UNCHANGED outsideVars

\* The new thread is created, registered and started; animate() and the
\* callback return and the runner thread ends.
CbRegister(i) ==
  /\ thr[i].pc = "cb_register"
  /\ nThreads' = nThreads + 1
  /\ thr' = [j \in Threads |->
              IF j = nThreads + 1 THEN NewThread(thr[i].cfg.chain, CfgReturn)
              ELSE IF j = i THEN CallbackDone(thr[i], FALSE)
              ELSE IF j <= nThreads /\ thr[j].id = thr[i].cfg.chain
                   THEN Replaced(thr[j])
                   ELSE thr[j]]
  /\ active_animations' =
       [active_animations EXCEPT ![thr[i].cfg.chain] = nThreads + 1]
  /\ UNCHANGED <<caller, stoppedIds>>
  /\ UNCHANGED outsideVars

\* The next statement of the animate() call thread i has begun in its
\* completion callback.
CbAnimate(i) ==
  CASE thr[i].pc = "cb_flag" -> CbStopFlag(i)
    [] thr[i].pc = "cb_del" -> CbStopDel(i)
    [] thr[i].pc = "cb_register" -> CbRegister(i)
    [] OTHER -> FALSE

\* One step of a runner thread inside such a callback.
CallbackStep ==
  \/ \E i \in Threads : CbCall(i)
  \/ \E i \in Threads : CbAnimate(i)

\* One step of the caller, who animates and stops the ids with the configs.
CallerStep(ids, cfgs) ==
  \/ \E id \in ids : CallStop(id)
  \/ StopFlag
  \/ StopDel
  \/ \E id \in ids, cfg \in cfgs : CallAnimate(id, cfg)
  \/ Register

\* One step of a runner thread whose clock and callbacks behave.
RunnerStep ==
  \/ \E i \in Threads : Delay(i)
  \/ \E i \in Threads : WhileCheck(i)
  \/ \E i \in Threads : TickUpdate(i)
  \/ \E i \in Threads : Cleanup(i)
  \/ \E i \in Threads : CleanupDel(i)
  \/ \E i \in Threads : Complete(i)

\* One step of a runner thread that meets a clock set back or a failing
\* update_callback.
FaultStep ==
  \/ \E i \in Threads : TickUpdateClockSetBack(i)
  \/ \E i \in Threads : TickUpdateRaises(i)

Next == CallerStep(Ids, Configs) \/ RunnerStep \/ FaultStep

Spec == Init /\ [][Next]_vars

\* The same program while the clock is never set back and no update_callback
\* raises.
NextSteady == CallerStep(Ids, Configs) \/ RunnerStep

SpecSteady == Init /\ [][NextSteady]_vars

\* The steady program with a caller that keeps to one animation id, animated
\* with the repeating, delayed configuration.
NextSingle == CallerStep({"x"}, {CfgPing}) \/ RunnerStep

SpecSingle == Init /\ [][NextSingle]_vars

\* One step of a caller who only animates: a running id is restarted.
RestartStep(ids, cfgs) ==
  \/ \E id \in ids, cfg \in cfgs : CallAnimate(id, cfg)
  \/ StopFlag
  \/ StopDel
  \/ Register

\* One step of a stop_all_animations call.
StopAllStep ==
  \/ CallStopAll
  \/ StopAllNext
  \/ StopAllClear

\* animate() of an id that is not registered: "x" is the repeating
\* auto-reverse animation, any other id the delayed one with repeat_count 0.
CallStart(id) ==
  /\ ~is_animating(id)
  /\ CallAnimate(id, IF id = "x" THEN CfgBeat ELSE CfgLoop)

\* One step of a caller who animates the ids that are not registered.
StartStep ==
  \/ \E id \in Ids : CallStart(id)
  \/ Register

\* The steady program with a caller that starts animations under two ids
\* and stops them all.
NextStopAll == StartStep \/ StopAllStep \/ RunnerStep

SpecStopAll == Init /\ [][NextStopAll]_vars

\* The steady program with a caller whose completion callbacks raise or
\* start the next animation.
NextCallbacks ==
  RestartStep(Ids, {CfgBoom, CfgChain}) \/ RunnerStep \/ CallbackStep

SpecCallbacks == Init /\ [][NextCallbacks]_vars

\* The steady program with a caller that also passes a duration of 0.
NextInvalid == CallerStep({"x"}, {CfgZero, CfgOnce}) \/ RunnerStep

SpecInvalid == Init /\ [][NextInvalid]_vars

\* The steady program with a caller that starts and restarts repeated
\* animations, with and without auto-reverse, under one id.
NextReverse == RestartStep({"x"}, {CfgSwing, CfgTwice}) \/ RunnerStep

SpecReverse == Init /\ [][NextReverse]_vars

\* The steady program with a caller that also starts animations whose
\* repeat_count is 0 or -1.
NextSentinel == CallerStep({"x"}, {CfgPulse, CfgLoop, CfgPing}) \/ RunnerStep

SpecSentinel == Init /\ [][NextSentinel]_vars

\* ---- properties ----

\* Thread i hands a value to update_callback in this step.
UpdateStep(i) == thr[i].pc = "tick" /\ thr'[i].pc # "tick"

\* The most recently started instance of id (NoThread: none yet).
Latest(id) ==
  LET S == {i \in 1..nThreads : thr[i].id = id}
  IN IF S = {} THEN NoThread ELSE CHOOSE i \in S : \A j \in S : j <= i

\* C1: an instance that was in its loop (its start delay included) when a
\* later animate() of the same id registered its successor never invokes its
\* completion_callback.
C1_ReplacedNeverCompletes ==
  \A i \in Threads : thr[i].cancelled = "replace" => ~thr[i].completed

\* C2: once animate() has returned for an id that was running, the replaced
\* instance hands no further value to its update_callback.
C2_ReplacedNeverUpdates ==
  [][\A i \in Threads : thr[i].cancelled = "replace" => ~UpdateStep(i)]_vars

\* C3: an instance that was running when stop_animation(id) was called on it
\* never invokes its completion_callback.
C3_StoppedNeverCompletes ==
  \A i \in Threads : thr[i].cancelled = "stop" => ~thr[i].completed

\* C4: once stop_animation(id) has returned, the stopped instance hands no
\* further value to its update_callback, wherever its runner was.
C4_StoppedNeverUpdates ==
  [][\A i \in Threads : thr[i].cancelled = "stop" => ~UpdateStep(i)]_vars

\* C5: while the most recently started instance of an id is in its loop and
\* has not been told to stop, is_animating(id) is true and the registry entry
\* is that instance.
C5_LatestStaysRegistered ==
  \A id \in Ids :
    LET l == Latest(id)
    IN (l # NoThread /\ InLoop(thr[l]) /\ thr[l].do_run)
         => (is_animating(id) /\ active_animations[id] = l)

\* C6: from the return of stop_animation(id) until the next animate(id, ...)
\* call, is_animating(id) is false: the registry holds no entry for id.
C6_StoppedIdNotRegistered ==
  \A id \in stoppedIds : ~is_animating(id) /\ active_animations[id] = NoThread

\* C6 witness: stop_animation has returned for an instance that was running,
\* whose runner is still in its loop, and no animate has followed.
C6_Witness ==
  \E i \in Threads :
    /\ thr[i].cancelled = "stop"
    /\ InLoop(thr[i])
    /\ thr[i].id \in stoppedIds
    /\ caller.pc = "idle"

\* C7: a stop_animation(id) call that begins when id has no live instance
\* (no runner of id is in its loop with do_run set) never raises, whatever
\* the runner threads do during the call.
C7_StopWithoutLiveInstanceNeverRaises ==
  ~(caller.pc = "raised" /\ caller.op = "stop" /\ ~caller.live)

\* C8: an instance (every configuration has a finite repeat_count >= 1 and a
\* completion_callback) on whose id no stop_animation or animate was called
\* after its start has invoked its completion_callback once its thread has
\* ended.
C8_UntouchedCompletesOnce ==
  \A i \in Threads :
    (HasEnded(thr[i]) /\ thr[i].cancelled = "no") => thr[i].completed

\* C9: with repeat_count = 1 and auto_reverse = False (the easings of the
\* model all have f(1) = 1), when the runner is about to invoke
\* completion_callback the last value it handed to update_callback was
\* computed at rawProgress = 1 and is end_value.
C9_LastUpdateIsEndValue ==
  \A i \in Threads :
    (/\ thr[i].pc = "complete"
     /\ thr[i].cfg.completion_callback
     /\ thr[i].cfg.repeat_count = 1
     /\ ~thr[i].cfg.auto_reverse
     /\ thr[i].progress # NoProgress)
      => (/\ thr[i].progress = thr[i].cfg.duration
          /\ thr[i].value = thr[i].cfg.end_value * Den(thr[i].cfg.duration))

\* C10: within one iteration the rawProgress of every tick lies in [0, 1]
\* and is not less than that of the tick before.
C10_ProgressMonotoneInRange ==
  [][\A i \in Threads :
       (UpdateStep(i) /\ thr'[i].progress # NoProgress)
         => (/\ thr'[i].progress \in 0..thr[i].cfg.duration
             /\ thr'[i].progress >= LastElapsed(thr[i]))]_vars

\* C11: an animation started with repeat_count 0 or -1, on whose id no
\* stop_animation or animate has been called since, is still in its loop and
\* registered: it has not left the loop for the clean-up and the
\* completion_callback.
C11_SentinelRunsUntilStopped ==
  \A i \in 1..nThreads :
    (/\ thr[i].cfg.repeat_count <= 0
     /\ ~HasEnded(thr[i])
     /\ thr[i].cancelled = "no")
      => (InLoop(thr[i]) /\ is_animating(thr[i].id))

\* Thread i leaves the iteration of the for loop it is in.
IterationLeft(i) ==
  /\ thr[i].pc \in {"while", "tick"}
  /\ (thr'[i].pc \notin {"while", "tick"} \/ thr'[i].repeat # thr[i].repeat)

\* C12: a runner with repeat_count = N >= 1 on whose id nothing was called
\* enters iteration 0 after its delay, leaves every iteration by a tick that
\* hands update_callback the value of rawProgress = 1, goes from iteration r
\* to iteration r + 1 with its elapsed time back at 0, and leaves the loop
\* for the clean-up from iteration N - 1 only.
C12_PlaysEveryIteration ==
  [][\A i \in Threads :
       (thr[i].cancelled = "no" /\ thr[i].cfg.repeat_count >= 1) =>
         /\ (thr[i].pc = "delay" /\ thr'[i].pc # "delay")
              => (thr'[i].pc = "while" /\ thr'[i].repeat = 0
                  /\ thr'[i].progress = NoProgress)
         /\ IterationLeft(i) =>
              /\ thr[i].pc = "tick"
              /\ thr'[i].value =
                   CurrentValue(thr[i].cfg, thr[i].repeat, thr[i].cfg.duration)
              /\ IF thr[i].repeat + 1 < thr[i].cfg.repeat_count
                   THEN /\ thr'[i].pc = "while"
                        /\ thr'[i].repeat = thr[i].repeat + 1
                        /\ thr'[i].progress = NoProgress
                   ELSE thr'[i].pc = "cleanup"]_vars

\* The rawProgress of the tick thread i computes in this step (a tick that
\* leaves the iteration is at rawProgress = 1 when no callback raises).
TickProgress(i) ==
  IF thr'[i].progress # NoProgress THEN thr'[i].progress
  ELSE thr[i].cfg.duration

\* C13: with auto_reverse every update of an odd iteration is computed from
\* 1 - e and every update of an even iteration from e, where e is the eased
\* progress of the tick's rawProgress; without auto_reverse every update is
\* computed from e.
C13_ReverseFlipsEasedProgress ==
  [][\A i \in Threads :
       UpdateStep(i) =>
         LET cfg == thr[i].cfg
             e == EasingFunc(cfg.easing, TickProgress(i), cfg.duration)
             span == cfg.end_value - cfg.start_value
             base == cfg.start_value * Den(cfg.duration)
         IN /\ (cfg.auto_reverse /\ thr[i].repeat % 2 = 1)
                 => thr'[i].value = base + span * (Den(cfg.duration) - e)
            /\ (cfg.auto_reverse /\ thr[i].repeat % 2 = 0)
                 => thr'[i].value = base + span * e
            /\ ~cfg.auto_reverse => thr'[i].value = base + span * e]_vars

\* C13 witness: a runner with auto_reverse has delivered, in iteration 1 and
\* at rawProgress 1/2, the value 0 + 3 * (1 - 1/4) (18 over Den(2) = 8).
C13_Witness ==
  \E i \in Threads :
    /\ thr[i].cfg = CfgSwing
    /\ thr[i].repeat = 1
    /\ thr[i].pc = "while"
    /\ thr[i].progress = 1
    /\ thr[i].value = 18

\* C14: from the return of stop_all_animations() until the caller's next
\* call, get_active_count() is 0 and is_animating(id) is false for every id.
C14_StopAllEmptiesRegistry ==
  (caller.pc = "idle" /\ caller.op = "stop_all")
    => (get_active_count = 0 /\ \A id \in Ids : ~is_animating(id))

\* C14 witness: stop_all_animations has returned while two repeating
\* auto-reverse animations of different ids were in their loops.
C14_Witness ==
  /\ caller.pc = "idle"
  /\ caller.op = "stop_all"
  /\ \E i, j \in Threads :
       /\ thr[i].id # thr[j].id
       /\ thr[i].cancelled = "stop" /\ thr[j].cancelled = "stop"
       /\ InLoop(thr[i]) /\ InLoop(thr[j])
       /\ thr[i].cfg.auto_reverse /\ thr[i].cfg.repeat_count = 2

\* C15: an instance whose stop_animation returned while it was in its start
\* delay hands no value to update_callback and never invokes its
\* completion_callback.
C15_StopInDelaySilences ==
  [][\A i \in Threads :
       thr[i].stop_in_delay => (~UpdateStep(i) /\ ~thr'[i].completed)]_vars

\* C16: a tick ends the iteration of its runner only if it is the tick of
\* rawProgress = 1; after any other tick, whether update_callback returned
\* or raised, the runner stays in the iteration and ticks again.
C16_RaisingUpdateIsDroppedFrame ==
  [][\A i \in Threads :
       (UpdateStep(i) /\ IterationLeft(i)) =>
         thr'[i].value =
           CurrentValue(thr[i].cfg, thr[i].repeat, thr[i].cfg.duration)]_vars

\* C17: no step of an animate() call whose duration is not positive changes
\* the registry, clears the do_run flag of a running thread or creates a
\* thread.
C17_InvalidDurationRejected ==
  [][(caller.op = "animate" /\ caller.cfg.duration <= 0 /\ caller' # caller)
       => /\ active_animations' = active_animations
          /\ nThreads' = nThreads
          /\ \A i \in Threads : thr'[i].do_run = thr[i].do_run]_vars

\* Thread i executes a statement of _animation_loop in this step.
RunnerActs(i) == thr'[i].pc # thr[i].pc \/ thr'[i].repeat # thr[i].repeat

\* C18: the step in which a completion_callback raises ends the runner by a
\* return, not by the exception; at that step the registry holds no entry of
\* the finished instance and is left as it is, and no step of a runner
\* changes the entry of an id other than its own.
C18_CompletionErrorSwallowed ==
  [][\A i \in Threads :
       /\ (/\ thr[i].pc = "complete"
           /\ thr[i].cfg.completion_callback /\ thr[i].cfg.completion_raises
           /\ thr'[i].pc # "complete")
            => (/\ thr'[i].pc = "done"
                /\ thr'[i].completed
                /\ active_animations[thr[i].id] # i
                /\ active_animations' = active_animations)
       /\ (thr[i].pc \in {"cleanup", "del", "complete"} /\ RunnerActs(i))
            => \A id \in Ids \ {thr[i].id} :
                 active_animations'[id] = active_animations[id]]_vars

\* C18 witness: a completion_callback has raised, its runner has returned,
\* and the animation of the other id is still registered.
C18_Witness ==
  \E i, j \in Threads :
    /\ thr[i].completion_raised
    /\ thr[i].pc = "done"
    /\ thr[j].id # thr[i].id
    /\ InLoop(thr[j])
    /\ active_animations[thr[j].id] = j

Asleep(t) == t.pc = "while" /\ t.progress # NoProgress

\* A stop_animation(id) call returns in this step.
StopReturns(id) == id \in stoppedIds' /\ id \notin stoppedIds

\* A stop_all_animations() call returns in this step.
StopAllReturns == caller.pc = "all_clear" /\ caller'.pc = "idle"

\* C20: a runner that is suspended at its per-tick sleep when
\* stop_animation of its id, or stop_all_animations, returns has its do_run
\* flag cleared: it reads the flag when it wakes up and delivers no update.
C20_StopReachesSleepingRunner ==
  [][\A i \in Threads :
       (/\ i <= nThreads
        /\ Asleep(thr[i])
        /\ (StopReturns(thr[i].id) \/ StopAllReturns))
         => ~thr'[i].do_run]_vars

\* ---- Python float: IEEE 754 binary64, round to nearest, ties to even ----

\* Python evaluates an expression once and calls with its value: F(v), and
\* F(a, b).
Let(v, F(_)) == CHOOSE r \in {F(x) : x \in {v}} : TRUE

Call2(F(_, _), a, b) == CHOOSE r \in {F(x, y) : x \in {a}, y \in {b}} : TRUE

\* A natural number is the sequence of its digits in base Base, least
\* significant first, without leading zeros: 0 is <<>>.
DigitBits == 15

Base == 2 ^ DigitBits

TopDigit(a) ==
  IF \A i \in 1..Len(a) : a[i] = 0 THEN 0
  ELSE CHOOSE i \in 1..Len(a) :
         a[i] # 0 /\ \A j \in (i + 1)..Len(a) : a[j] = 0

TrimDigits(a) == SubSeq(a, 1, TopDigit(a))

Trim(a) == Let(a, TrimDigits)

DigitAt(a, i) == IF i >= 1 /\ i <= Len(a) THEN a[i] ELSE 0

RECURSIVE NatDigits(_)
NatDigits(n) == IF n = 0 THEN <<>> ELSE <<n % Base>> \o NatDigits(n \div Base)

\* The carry into digit i of a + b: some lower digit overflows and every
\* digit between passes the carry on.
AddCarry(a, b, i) ==
  IF \E j \in 1..(i - 1) :
       /\ DigitAt(a, j) + DigitAt(b, j) >= Base
       /\ \A k \in (j + 1)..(i - 1) : DigitAt(a, k) + DigitAt(b, k) = Base - 1
    THEN 1 ELSE 0

AddDigits(a, b) ==
  TrimDigits([i \in 1..((IF Len(a) > Len(b) THEN Len(a) ELSE Len(b)) + 1) |->
                (DigitAt(a, i) + DigitAt(b, i) + AddCarry(a, b, i)) % Base])

BAdd(a, b) == Call2(AddDigits, a, b)

\* The borrow from digit i of a - b.
SubBorrow(a, b, i) ==
  IF \E j \in 1..(i - 1) :
       /\ DigitAt(a, j) < DigitAt(b, j)
       /\ \A k \in (j + 1)..(i - 1) : DigitAt(a, k) = DigitAt(b, k)
    THEN 1 ELSE 0

SubDigits(a, b) ==
  TrimDigits([i \in 1..Len(a) |->
                (DigitAt(a, i) - DigitAt(b, i) - SubBorrow(a, b, i)) % Base])

\* a - b for a >= b
BSub(a, b) == Call2(SubDigits, a, b)

LessDigits(a, b) ==
  IF Len(a) # Len(b) THEN Len(a) < Len(b)
  ELSE \E i \in 1..Len(a) :
         /\ a[i] < b[i]
         /\ \A j \in (i + 1)..Len(a) : a[j] = b[j]

BLess(a, b) == Call2(LessDigits, a, b)

\* a * Base^k
ShiftDigits(a, k) == IF a = <<>> THEN a ELSE [i \in 1..k |-> 0] \o a

ShlDigits(a, k) == Call2(ShiftDigits, a, k)

\* a * d for one digit d: the low digits of the products plus their high
\* digits one place up.
MulByDigit(a, d) ==
  AddDigits([i \in 1..Len(a) |-> (a[i] * d) % Base],
            [i \in 1..(Len(a) + 1) |->
               IF i = 1 THEN 0 ELSE (a[i - 1] * d) \div Base])

BMulDigit(a, d) == Call2(MulByDigit, a, d)

RECURSIVE MulFrom(_, _, _)
MulFrom(a, b, i) ==
  IF i > Len(b) THEN <<>>
  ELSE BAdd(ShlDigits(BMulDigit(a, b[i]), i - 1), MulFrom(a, b, i + 1))

MulDigits(a, b) == MulFrom(a, b, 1)

BMul(a, b) == Call2(MulDigits, a, b)

\* 2^k
Pow2Digits(k) == ShiftDigits(<<2 ^ (k % DigitBits)>>, k \div DigitBits)

Pow2(k) == Let(k, Pow2Digits)

\* a * 2^k
ShlBitsDigits(a, k) ==
  ShiftDigits(MulByDigit(a, 2 ^ (k % DigitBits)), k \div DigitBits)

ShlBits(a, k) == Call2(ShlBitsDigits, a, k)

\* a \div 2^k
ShrBitsDigits(a, k) ==
  LET kd == k \div DigitBits
      kb == k % DigitBits
  IN TrimDigits([i \in 1..(Len(a) - kd) |->
                   (a[i + kd] \div (2 ^ kb))
                   + ((DigitAt(a, i + kd + 1) % (2 ^ kb))
                      * (2 ^ (DigitBits - kb)))])

ShrBits(a, k) == Call2(ShrBitsDigits, a, k)

\* a % 2^k
LowBitsDigits(a, k) ==
  LET kd == k \div DigitBits
      kb == k % DigitBits
  IN TrimDigits([i \in 1..(kd + 1) |->
                   IF i <= kd THEN DigitAt(a, i)
                   ELSE DigitAt(a, i) % (2 ^ kb)])

LowBits(a, k) == Call2(LowBitsDigits, a, k)

\* Number of bits of a: 0 for 0.
BitLenDigits(a) ==
  IF a = <<>> THEN 0
  ELSE ((Len(a) - 1) * DigitBits)
       + (CHOOSE k \in 1..DigitBits :
            2 ^ (k - 1) <= a[Len(a)] /\ a[Len(a)] < 2 ^ k)

BitLen(a) == Let(a, BitLenDigits)

\* Number of zero bits at the low end of a # 0.
LowZerosDigits(a) ==
  LET i == CHOOSE j \in 1..Len(a) : a[j] # 0 /\ \A k \in 1..(j - 1) : a[k] = 0
  IN ((i - 1) * DigitBits)
     + (CHOOSE k \in 0..(DigitBits - 1) :
          a[i] % (2 ^ k) = 0 /\ a[i] % (2 ^ (k + 1)) # 0)

LowZeros(a) == Let(a, LowZerosDigits)

\* Short division of a by one digit d # 0 from digit i of a downward, rem
\* being the remainder of the digits above i: quotient q and remainder r.
RECURSIVE DivFrom(_, _, _, _)
DivFrom(a, d, i, rem) ==
  IF i = 0 THEN [q |-> <<>>, r |-> rem]
  ELSE Let((rem * Base) + a[i], LAMBDA cur :
       Let(DivFrom(a, d, i - 1, cur % d), LAMBDA rest :
         [q |-> rest.q \o <<cur \div d>>, r |-> rest.r]))

DivByDigit(a, d) ==
  Let(DivFrom(a, d, Len(a), 0), LAMBDA x : [q |-> TrimDigits(x.q), r |-> NatDigits(x.r)])

BDivModDigit(a, d) == Call2(DivByDigit, a, d)

\* (res + d * Base^k)^2 <= n
RootFits(n, res, k, d) ==
  d = 0 \/ Let(BAdd(res, ShlDigits(<<d>>, k)),
               LAMBDA t : ~BLess(n, BMul(t, t)))

\* The digit is found in three steps of DigitBits / 3 bits each.
RootRadix == 2 ^ (DigitBits \div 3)

\* The largest j below RootRadix for which lo + j * unit fits.
RootStep(n, res, k, lo, unit) ==
  CHOOSE j \in 0..(RootRadix - 1) :
    /\ RootFits(n, res, k, lo + (j * unit))
    /\ j = RootRadix - 1 \/ ~RootFits(n, res, k, lo + ((j + 1) * unit))

\* The largest digit d with (res + d * Base^k)^2 <= n, the high bits
\* first.
RootDigit(n, res, k) ==
  Let(RootRadix * RootRadix * RootStep(n, res, k, 0, RootRadix * RootRadix),
      LAMBDA hi :
  Let(hi + (RootRadix * RootStep(n, res, k, hi, RootRadix)), LAMBDA mid :
    mid + RootStep(n, res, k, mid, 1)))

RECURSIVE SqrtFrom(_, _, _)
SqrtFrom(n, res, k) ==
  IF k < 0 THEN res
  ELSE Let(RootDigit(n, res, k), LAMBDA d :
       Let(IF d = 0 THEN res ELSE BAdd(res, ShlDigits(<<d>>, k)), LAMBDA r2 :
         SqrtFrom(n, r2, k - 1)))

\* Integer square root q of n and the remainder r = n - q * q.
SqrtDigits(n) ==
  Let(SqrtFrom(n, <<>>, Len(n) \div 2),
      LAMBDA q : [q |-> q, r |-> BSub(n, BMul(q, q))])

BSqrt(n) == Let(n, SqrtDigits)

\* Bits of the significand of a binary64.
Precision == 53

\* A float is sign * mant * 2^exp with sign in {1, -1} and a mant of
\* Precision bits, or mant = <<>> and exp = 0 for the zeros +0.0 and -0.0.
\* The exponent is not limited: no value met here overflows or is subnormal.

\* The exact value x, more than Precision bits by k, cut to the nearest
\* float, ties to the even significand.
RoundOff(x, k) ==
  Let(ShrBits(x.mant, k), LAMBDA q :
  Let(LowBits(x.mant, k), LAMBDA r :
  Let(IF \/ BLess(Pow2(k - 1), r)
         \/ r = Pow2(k - 1) /\ q[1] % 2 = 1
        THEN BAdd(q, <<1>>) ELSE q, LAMBDA m :
    IF BitLen(m) > Precision
      THEN [x EXCEPT !.mant = ShrBits(m, 1), !.exp = @ + k + 1]
      ELSE [x EXCEPT !.mant = m, !.exp = @ + k])))

RoundExact(x) ==
  IF x.mant = <<>> THEN [x EXCEPT !.exp = 0]
  ELSE Let(BitLen(x.mant) - Precision, LAMBDA k :
         IF k <= 0
           THEN [x EXCEPT !.mant = ShlBits(@, 0 - k), !.exp = @ + k]
           ELSE RoundOff(x, k))

\* The float nearest to the exact value x.
Round(x) == Let(x, RoundExact)

FromInt(n) ==
  Round([sign |-> IF n < 0 THEN 0 - 1 ELSE 1,
         mant |-> NatDigits(IF n < 0 THEN 0 - n ELSE n), exp |-> 0])

IsZero(x) == x.mant = <<>>

FNeg(x) == [x EXCEPT !.sign = 0 - @]

\* The exact sum of a * 2^e with the sign of x and b * 2^e with that of y.
AddAligned(x, y, e, a, b) ==
  IF x.sign = y.sign
    THEN [sign |-> x.sign, mant |-> BAdd(a, b), exp |-> e]
  ELSE IF BLess(a, b)
    THEN [sign |-> y.sign, mant |-> BSub(b, a), exp |-> e]
  ELSE IF BLess(b, a)
    THEN [sign |-> x.sign, mant |-> BSub(a, b), exp |-> e]
  ELSE [sign |-> 1, mant |-> <<>>, exp |-> 0]

AddFloats(x, y) ==
  Let(IF IsZero(x) THEN y.exp
      ELSE IF IsZero(y) THEN x.exp
      ELSE Min(x.exp, y.exp), LAMBDA e :
  Let(ShlBits(x.mant, x.exp - e), LAMBDA a :
  Let(ShlBits(y.mant, y.exp - e), LAMBDA b :
    Round(AddAligned(x, y, e, a, b)))))

\* x + y
FAdd(x, y) == Call2(AddFloats, x, y)

\* x - y
FSub(x, y) == FAdd(x, FNeg(y))

MulFloats(x, y) ==
  Round([sign |-> x.sign * y.sign, mant |-> BMul(x.mant, y.mant),
         exp |-> x.exp + y.exp])

\* x * y
FMul(x, y) == Call2(MulFloats, x, y)

\* The digits q doubled, plus one if a remainder r is left: one more bit that
\* tells the rounding whether the value lies above q.
WithSticky(d) == BAdd(BAdd(d.q, d.q), IF d.r = <<>> THEN <<>> ELSE <<1>>)

\* The quotient of the significands to two bits more than the precision, at
\* least.  The divisor is an odd number of one digit times a power of two, as
\* are the divisors of the source: 2, 2.75 and the powers of ten of its
\* literals.
DivFloats(x, y) ==
  Let(DigitBits + 2, LAMBDA n :
  Let(LowZeros(y.mant), LAMBDA z :
    Round([sign |-> x.sign * y.sign,
           mant |-> WithSticky(BDivModDigit(ShlBits(x.mant, n),
                                            ShrBits(y.mant, z)[1])),
           exp |-> x.exp - (y.exp + z) - n - 1])))

\* x / y for y # 0
FDiv(x, y) == Call2(DivFloats, x, y)

\* The root of the significand to two bits more than the precision, at
\* least, of an even power of two.
SqrtFloat(x) ==
  Let((2 * ((Precision + 6) \div 2)) + (x.exp % 2), LAMBDA n :
    Round([sign |-> x.sign,
           mant |-> WithSticky(BSqrt(ShlBits(x.mant, n))),
           exp |-> ((x.exp - n) \div 2) - 1]))

\* math.sqrt(x) for x >= 0
FSqrt(x) == Let(x, SqrtFloat)

\* x == y and x < y in Python: the two zeros are equal.
FEq(x, y) == IsZero(FSub(x, y))

IsNegative(d) == ~IsZero(d) /\ d.sign < 0

FLess(x, y) == Let(FSub(x, y), IsNegative)

\* pow(x, n) and x ** n for a whole n >= 1: the products are exact for the
\* arguments met here (0, 1 and -1), as is the C library's pow.
RECURSIVE FPow(_, _)
FPow(x, n) == IF n = 1 THEN x ELSE FMul(x, FPow(x, n - 1))

\* A decimal literal num/den of the source, converted as Python converts it:
\* to the nearest float.
Lit(num, den) == FDiv(FromInt(num), FromInt(den))

\* ---- EasingFunctions, as Python computes them ----

Zero == FromInt(0)

One == FromInt(1)

Two == FromInt(2)

Half == Lit(5, 10)

linear(t) == t

\* c1 = 1.70158; c3 = c1 + 1
back_c1 == Lit(170158, 100000)

back_c3 == FAdd(back_c1, One)

\* c2 = c1 * 1.525
back_c2 == FMul(back_c1, Lit(1525, 1000))

\* return c3 * t * t * t - c1 * t * t
ease_in_back(t) ==
  FSub(FMul(FMul(FMul(back_c3, t), t), t), FMul(FMul(back_c1, t), t))

\* return 1 + c3 * pow(t - 1, 3) + c1 * pow(t - 1, 2)
ease_out_back(t) ==
  FAdd(FAdd(One, FMul(back_c3, FPow(FSub(t, One), 3))),
       FMul(back_c1, FPow(FSub(t, One), 2)))

\* The second definition of the class body, the one the class keeps.
ease_in_out_back(t) ==
  IF FLess(t, Half)
    THEN FDiv(FMul(FMul(FMul(Two, t), t),
                   FSub(FMul(FMul(FAdd(back_c2, One), Two), t), back_c2)),
              Two)
    ELSE FDiv(FAdd(FMul(FPow(FSub(FMul(Two, t), Two), 2),
                        FAdd(FMul(FAdd(back_c2, One),
                                  FSub(FMul(t, Two), Two)),
                             back_c2)),
                   Two),
              Two)

ease_in_circ(t) == FSub(One, FSqrt(FSub(One, FPow(t, 2))))

ease_out_circ(t) == FSqrt(FSub(One, FPow(FSub(t, One), 2)))

ease_in_out_circ(t) ==
  IF FLess(t, Half)
    THEN FDiv(FSub(One, FSqrt(FSub(One, FPow(FMul(Two, t), 2)))), Two)
    ELSE FDiv(FAdd(FSqrt(FSub(One,
                              FPow(FAdd(FMul(FromInt(0 - 2), t), Two), 2))),
                   One),
              Two)

ease_in_quad(t) == FMul(t, t)

ease_out_quad(t) == FMul(t, FSub(Two, t))

ease_in_out_quad(t) ==
  IF FLess(t, Half)
    THEN FMul(FMul(Two, t), t)
    ELSE FSub(One, FDiv(FPow(FAdd(FMul(FromInt(0 - 2), t), Two), 2), Two))

ease_in_cubic(t) == FMul(FMul(t, t), t)

ease_out_cubic(t) == FSub(One, FPow(FSub(One, t), 3))

ease_in_out_cubic(t) ==
  IF FLess(t, Half)
    THEN FMul(FMul(FMul(FromInt(4), t), t), t)
    ELSE FSub(One, FDiv(FPow(FAdd(FMul(FromInt(0 - 2), t), Two), 3), Two))

\* 7.5625 * t * t + c after t -= off / 2.75
BounceArc(t, off, c) ==
  Let(FSub(t, FDiv(off, Lit(275, 100))),
      LAMBDA u : FAdd(FMul(FMul(Lit(75625, 10000), u), u), c))

bounce_out(t) ==
  IF FLess(t, FDiv(One, Lit(275, 100)))
    THEN FMul(FMul(Lit(75625, 10000), t), t)
  ELSE IF FLess(t, FDiv(Two, Lit(275, 100)))
    THEN BounceArc(t, Lit(15, 10), Lit(75, 100))
  ELSE IF FLess(t, FDiv(Lit(25, 10), Lit(275, 100)))
    THEN BounceArc(t, Lit(225, 100), Lit(9375, 10000))
  ELSE BounceArc(t, Lit(2625, 1000), Lit(984375, 1000000))

\* pow(2, -10 * t) * math.sin((t * 10 - 0.75) * (2 * math.pi) / 3) + 1: the
\* sine is not computed here, and no call of the model reaches it.
ElasticWave == "pow(2, -10 * t) * math.sin((t * 10 - 0.75) * (2 * math.pi) / 3) + 1"

elastic_out(t) == IF FEq(t, Zero) \/ FEq(t, One) THEN t ELSE ElasticWave

\* AnimatedWidget._ease_out_cubic: return 1 - (1 - t) ** 3
Widget_ease_out_cubic(t) == FSub(One, FPow(FSub(One, t), 3))

\* AnimatedWidget._ease_in_out_quad
Widget_ease_in_out_quad(t) ==
  IF FLess(t, Half)
    THEN FMul(FMul(Two, t), t)
    ELSE FSub(One, FDiv(FPow(FAdd(FMul(FromInt(0 - 2), t), Two), 2), Two))

\* The values of EasingType, keys of AnimationManager._easing_functions.
EasingType ==
  {"linear", "ease_in_quad", "ease_out_quad", "ease_in_out_quad",
   "ease_in_cubic", "ease_out_cubic", "ease_in_out_cubic", "bounce_out",
   "elastic_out", "ease_in_back", "ease_out_back", "ease_in_out_back",
   "ease_in_circ", "ease_out_circ", "ease_in_out_circ"}

\* The easing methods of AnimatedWidget.
WidgetEasings == {"_ease_out_cubic", "_ease_in_out_quad"}

\* self._easing_functions[kind](t), or the widget's own method.
easing_functions(kind, t) ==
  CASE kind = "linear" -> linear(t)
    [] kind = "ease_in_quad" -> ease_in_quad(t)
    [] kind = "ease_out_quad" -> ease_out_quad(t)
    [] kind = "ease_in_out_quad" -> ease_in_out_quad(t)
    [] kind = "ease_in_cubic" -> ease_in_cubic(t)
    [] kind = "ease_out_cubic" -> ease_out_cubic(t)
    [] kind = "ease_in_out_cubic" -> ease_in_out_cubic(t)
    [] kind = "bounce_out" -> bounce_out(t)
    [] kind = "elastic_out" -> elastic_out(t)
    [] kind = "ease_in_back" -> ease_in_back(t)
    [] kind = "ease_out_back" -> ease_out_back(t)
    [] kind = "ease_in_out_back" -> ease_in_out_back(t)
    [] kind = "ease_in_circ" -> ease_in_circ(t)
    [] kind = "ease_out_circ" -> ease_out_circ(t)
    [] kind = "ease_in_out_circ" -> ease_in_out_circ(t)
    [] kind = "_ease_out_cubic" -> Widget_ease_out_cubic(t)
    [] kind = "_ease_in_out_quad" -> Widget_ease_in_out_quad(t)

\* ---- an easing function called at the ends of its range ----

\* The arguments 0 and 1 as the callers pass them: the int of the tests and
\* the float of progress = min(elapsed / duration, 1.0).  An int 0 or 1 and
\* the float of the same value give equal results in every operation of these
\* functions, so the argument is computed with as its float.
\* The AnimationManager while something else than the manager runs: no
\* animation was ever started.
managerVars == <<active_animations, nThreads, thr, caller, stoppedIds>>

ManagerIdle ==
  /\ active_animations = [id \in Ids |-> NoThread]
  /\ nThreads = 0
  /\ thr = [i \in Threads |-> IdleThread]
  /\ caller = IdleCaller
  /\ stoppedIds = {}

ArgTypes == {"int", "float"}

NoResult == "none"

InitEasing ==
  /\ ManagerIdle
  /\ WidgetIdle
  /\ ButtonIdle
  /\ CoreIdle
  /\ \E kind \in EasingType \cup WidgetEasings, ty \in ArgTypes,
        n \in {0, 1} :
       easing_call = [pc |-> "call", kind |-> kind, arg_type |-> ty,
                      t |-> FromInt(n), result |-> NoResult]

\* The call returns.
CallEasing ==
  /\ easing_call.pc = "call"
  /\ easing_call' =
       [easing_call EXCEPT !.pc = "returned",
                           !.result = easing_functions(easing_call.kind,
                                                       easing_call.t)]
  /\ UNCHANGED <<managerVars, widgetVars, buttonVars, coreVars>>

NextEasing == CallEasing

SpecEasing == InitEasing /\ [][NextEasing]_vars

\* C21: every easing function, called with 0, returns a value equal to 0,
\* and called with 1, returns a value equal to 1.
C21_EasingBoundaryValues ==
  easing_call.pc = "returned" =>
    /\ FEq(easing_call.t, Zero) => FEq(easing_call.result, Zero)
    /\ FEq(easing_call.t, One) => FEq(easing_call.result, One)

\* ---- AnimatedWidget.animate_property and its threads (core.py) ----

\* The start and end values a caller hands to animate_property: a fade from
\* 1.0 to 0.3 and a growth from 0 to 100.
Requests ==
  [fade |-> [start_value |-> One, end_value |-> Lit(3, 10)],
   grow |-> [start_value |-> Zero, end_value |-> FromInt(100)],
   unit |-> [start_value |-> Zero, end_value |-> One]]

RequestNames == {"fade", "grow"}

\* progress = min(elapsed / duration, 1.0), for a duration of Frames ticks
\* of the clock and an elapsed time of k ticks.
Widget_progress(k) ==
  Let(FDiv(FromInt(k), FromInt(Frames)),
      LAMBDA q : IF FLess(One, q) THEN One ELSE q)

\* current_value = start_value + (end_value - start_value) * eased_progress
Widget_current_value(r, k) ==
  FAdd(Requests[r].start_value,
       FMul(FSub(Requests[r].end_value, Requests[r].start_value),
            Widget_ease_out_cubic(Widget_progress(k))))

\* The values a property thread can write, computed once.
PropertyValues ==
  {<<r, k, Widget_current_value(r, k)>> : r \in DOMAIN Requests,
                                          k \in 0..Frames}

PropertyValue(r, k) ==
  (CHOOSE e \in PropertyValues : e[1] = r /\ e[2] = k)[3]

\* len(self._current_animations) > 0
Widget_is_animating == \E p \in Attributes : current_animations[p] # NoThread

WidgetCallerCanCall ==
  /\ wcaller.pc = "idle"
  /\ wcaller.calls < MaxCalls
  /\ size_call.pc # "animate"

WidgetReturns(op, p, r) ==
  [pc |-> "idle", returned |-> op, property_name |-> p, request |-> r,
   calls |-> wcaller.calls + 1]

\* animate_property with config.enable_animations False, but skipping the
\* call of update_appearance().
AnimateDisabled_SkipsUpdate(p, r) ==
  /\ WidgetCallerCanCall
  /\ ~enable_animations
  /\ fields' = [fields EXCEPT ![p] = Requests[r].end_value]
  /\ wcaller' = WidgetReturns("animate_property", p, r)
  /\ UNCHANGED <<enable_animations, current_animations, nPropertyThreads,
                 pthr, appearance_updates>>
  /\ UNCHANGED <<managerVars, easing_call, buttonVars, coreVars>>

\* animate_property with config.enable_animations False: setattr to the end
\* value, update_appearance(), return.
AnimateDisabled(p, r) ==
  /\ WidgetCallerCanCall
  /\ ~enable_animations
  /\ fields' = [fields EXCEPT ![p] = Requests[r].end_value]
  /\ appearance_updates' = appearance_updates + 1
  /\ wcaller' = WidgetReturns("animate_property", p, r)
  /\ UNCHANGED <<enable_animations, current_animations, nPropertyThreads, pthr>>
  /\ UNCHANGED <<managerVars, easing_call, buttonVars, coreVars>>

\* animate_property with animations enabled, up to the test for a running
\* animation of the same property.
CallAnimateProperty(p, r) ==
  /\ WidgetCallerCanCall
  /\ enable_animations
  /\ wcaller' = [wcaller EXCEPT !.pc = "flag", !.property_name = p,
                                !.request = r]
  /\ UNCHANGED <<enable_animations, current_animations, nPropertyThreads,
                 pthr, fields, appearance_updates>>
  /\ UNCHANGED <<managerVars, easing_call, buttonVars, coreVars>>

\* if property_name in self._current_animations:
\*     self._current_animations[property_name].do_run = False
AnimateFlag ==
  /\ wcaller.pc = "flag"
  /\ LET old == current_animations[wcaller.property_name]
     IN  pthr' = IF old = NoThread THEN pthr
                 ELSE [pthr EXCEPT ![old].do_run = FALSE]
  /\ wcaller' = [wcaller EXCEPT !.pc = "start"]
  /\ UNCHANGED <<enable_animations, current_animations, nPropertyThreads,
                 fields, appearance_updates>>
  /\ UNCHANGED <<managerVars, easing_call, buttonVars, coreVars>>

\* The Thread is created with do_run True, stored under the property name
\* and started; animate_property returns.
AnimateStart ==
  /\ wcaller.pc = "start"
  /\ nPropertyThreads' = nPropertyThreads + 1
  /\ pthr' = [pthr EXCEPT ![nPropertyThreads + 1] =
                [pc |-> "while", property_name |-> wcaller.property_name,
                 request |-> wcaller.request, do_run |-> TRUE, frame |-> -1]]
  /\ current_animations' =
       [current_animations EXCEPT ![wcaller.property_name] =
          nPropertyThreads + 1]
  /\ wcaller' = WidgetReturns("animate_property", wcaller.property_name,
                              wcaller.request)
  /\ UNCHANGED <<enable_animations, fields, appearance_updates>>
  /\ UNCHANGED <<managerVars, easing_call, buttonVars, coreVars>>

\* stop_all_animations: the loop that sets do_run False on every thread of
\* self._current_animations.
WidgetStopAllFlag ==
  /\ WidgetCallerCanCall
  /\ pthr' = [i \in PropertyThreads |->
                IF \E p \in Attributes : current_animations[p] = i
                  THEN [pthr[i] EXCEPT !.do_run = FALSE]
                  ELSE pthr[i]]
  /\ wcaller' = [wcaller EXCEPT !.pc = "clear", !.property_name = "",
                                !.request = ""]
  /\ UNCHANGED <<enable_animations, current_animations, nPropertyThreads,
                 fields, appearance_updates>>
  /\ UNCHANGED <<managerVars, easing_call, buttonVars, coreVars>>

\* stop_all_animations without the clear() of the dict.
WidgetStopAllClear_KeepsEntries ==
  /\ wcaller.pc = "clear"
  /\ wcaller' = WidgetReturns("stop_all_animations", "", "")
  /\ UNCHANGED <<enable_animations, current_animations, nPropertyThreads,
                 pthr, fields, appearance_updates>>
  /\ UNCHANGED <<managerVars, easing_call, buttonVars, coreVars>>

\* self._current_animations.clear(); stop_all_animations returns.
WidgetStopAllClear ==
  /\ wcaller.pc = "clear"
  /\ current_animations' = [p \in Attributes |-> NoThread]
  /\ wcaller' = WidgetReturns("stop_all_animations", "", "")
  /\ UNCHANGED <<enable_animations, nPropertyThreads, pthr, fields,
                 appearance_updates>>
  /\ UNCHANGED <<managerVars, easing_call, buttonVars, coreVars>>

\* while getattr(threading.current_thread(), "do_run", True):
PropertyWhile(i) ==
  /\ pthr[i].pc = "while"
  /\ pthr' = [pthr EXCEPT ![i].pc = IF pthr[i].do_run THEN "write" ELSE "done"]
  /\ UNCHANGED <<enable_animations, current_animations, nPropertyThreads,
                 fields, appearance_updates, wcaller>>
  /\ UNCHANGED <<managerVars, easing_call, buttonVars, coreVars>>

\* The body of the loop up to setattr: the clock is read (k ticks have
\* elapsed, more than at the previous frame since the thread slept in
\* between), and the current value is assigned to the attribute.
PropertyWrite(i, k) ==
  /\ pthr[i].pc = "write"
  /\ k > pthr[i].frame
  /\ fields' = [fields EXCEPT ![pthr[i].property_name] =
                  PropertyValue(pthr[i].request, Min(k, Frames))]
  /\ pthr' = [pthr EXCEPT ![i].pc = "update", ![i].frame = Min(k, Frames)]
  /\ UNCHANGED <<enable_animations, current_animations, nPropertyThreads,
                 appearance_updates, wcaller>>
  /\ UNCHANGED <<managerVars, easing_call, buttonVars, coreVars>>

\* self.update_appearance(); then break if progress >= 1.0, else sleep one
\* frame and test do_run again.
PropertyUpdate(i) ==
  /\ pthr[i].pc = "update"
  /\ appearance_updates' = appearance_updates + 1
  /\ pthr' = [pthr EXCEPT ![i].pc = IF pthr[i].frame >= Frames THEN "done"
                                     ELSE "while"]
  /\ UNCHANGED <<enable_animations, current_animations, nPropertyThreads,
                 fields, wcaller>>
  /\ UNCHANGED <<managerVars, easing_call, buttonVars, coreVars>>

\* A widget with animations enabled or disabled in its config.
InitWidget ==
  /\ ManagerIdle
  /\ easing_call = NoEasingCall
  /\ ButtonIdle
  /\ CoreIdle
  /\ enable_animations \in BOOLEAN
  /\ current_animations = [p \in Attributes |-> NoThread]
  /\ nPropertyThreads = 0
  /\ pthr = [i \in PropertyThreads |-> NoPropertyThread]
  /\ fields = [p \in Attributes |-> Unset]
  /\ appearance_updates = 0
  /\ wcaller = IdleWidgetCaller

WidgetCallerStep ==
  \/ \E p \in Properties, r \in RequestNames : AnimateDisabled(p, r)
  \/ \E p \in Properties, r \in RequestNames : CallAnimateProperty(p, r)
  \/ AnimateFlag
  \/ AnimateStart
  \/ WidgetStopAllFlag
  \/ WidgetStopAllClear

\* One step of the property thread i.
PropertyThreadAct(i) ==
  \/ PropertyWhile(i)
  \/ \E k \in 0..Frames : PropertyWrite(i, k)
  \/ PropertyUpdate(i)

PropertyThreadStep == \E i \in PropertyThreads : PropertyThreadAct(i)

NextWidget == WidgetCallerStep \/ PropertyThreadStep

SpecWidget == InitWidget /\ [][NextWidget]_vars

\* The thread registered for property p has run to its last frame without
\* being cancelled.
CompletedNaturally(p) ==
  /\ current_animations[p] # NoThread
  /\ pthr[current_animations[p]].pc = "done"
  /\ pthr[current_animations[p]].do_run

\* Thread i assigns the attribute it animates in this step.
PropertyWrites(i) == pthr[i].pc = "write" /\ pthr'[i].pc = "update"

\* C22: when animate_property is called for a property whose animation is
\* still running, the cancelled thread never makes the last write: once the
\* thread of the second call has written its last value and terminated, no
\* other thread assigns the property, so that the field keeps the value the
\* second animation ended with.
C22_CancelledThreadNeverWritesLast ==
  [][\A i \in PropertyThreads :
       PropertyWrites(i) =>
         ~ /\ current_animations[pthr[i].property_name] # i
           /\ CompletedNaturally(pthr[i].property_name)]_vars

\* No property thread is running.
NoPropertyThreadRuns == \A i \in PropertyThreads : pthr[i].pc \in {"none", "done"}

\* C23: is_animating() is True when animate_property has just started an
\* animation, and False once every animation has run to its last frame and
\* terminated without having been stopped.
C23_IsAnimatingFollowsThreads ==
  /\ (wcaller.pc = "idle" /\ wcaller.returned = "animate_property"
        /\ enable_animations) => Widget_is_animating
  /\ (NoPropertyThreadRuns /\ \E p \in Properties : CompletedNaturally(p))
       => ~Widget_is_animating

\* A call of animate_property returns in this step.
AnimatePropertyReturns ==
  /\ wcaller'.calls = wcaller.calls + 1
  /\ wcaller'.returned = "animate_property"

\* C24: with config.enable_animations False, animate_property assigns the
\* end value to the attribute before it returns, calls update_appearance()
\* exactly once, creates no thread and leaves _current_animations as it was.
C24_DisabledSetsEndValueAtOnce ==
  [][(~enable_animations /\ AnimatePropertyReturns) =>
       /\ wcaller.pc = "idle"
       /\ fields'[wcaller'.property_name] = Requests[wcaller'.request].end_value
       /\ appearance_updates' = appearance_updates + 1
       /\ nPropertyThreads' = nPropertyThreads
       /\ pthr' = pthr
       /\ current_animations' = current_animations]_vars

\* animate_property has returned twice on a widget with animations disabled:
\* both attributes hold their end values and nothing is registered.
C24_Witness ==
  /\ ~enable_animations
  /\ wcaller.returned = "animate_property"
  /\ wcaller.calls = 2
  /\ appearance_updates = 2
  /\ fields["opacity"] = Requests["fade"].end_value
  /\ fields["width"] = Requests["grow"].end_value
  /\ ~Widget_is_animating
  /\ nPropertyThreads = 0

\* Thread i was not cancelled, and the frame it writes in this step is its
\* last one (progress >= 1.0).
WritesLastFrame(i) ==
  /\ PropertyWrites(i)
  /\ pthr[i].do_run
  /\ pthr'[i].frame >= Frames

\* C25: a property animation that is not cancelled sets the attribute to
\* end_value with its last write, and every write of a property thread is
\* followed by a call of update_appearance() as that thread's next step.
C25_LastWriteIsEndValue ==
  [][\A i \in PropertyThreads :
       /\ WritesLastFrame(i) =>
            FEq(fields'[pthr[i].property_name],
                Requests[pthr[i].request].end_value)
       /\ (pthr[i].pc = "update" /\ pthr'[i] # pthr[i]) =>
            appearance_updates' = appearance_updates + 1]_vars

\* A widget with animations enabled whose caller animates each attribute
\* towards one target (opacity fades, width grows) and stops all animations.
InitWidgetStop == InitWidget /\ enable_animations

TargetOf == [opacity |-> "fade", width |-> "grow"]

NextWidgetStop ==
  \/ \E p \in Properties : CallAnimateProperty(p, TargetOf[p])
  \/ AnimateFlag
  \/ AnimateStart
  \/ WidgetStopAllFlag
  \/ WidgetStopAllClear
  \/ PropertyThreadStep

\* The scheduler lets every started thread run again: a property thread
\* that can take a step eventually takes one.
SpecWidgetStop ==
  /\ InitWidgetStop
  /\ [][NextWidgetStop]_vars
  /\ \A i \in PropertyThreads : WF_vars(PropertyThreadAct(i))

\* stop_all_animations has returned and the caller has not called again.
StopAllReturned ==
  wcaller.pc = "idle" /\ wcaller.returned = "stop_all_animations"

Running(i) == pthr[i].pc \in {"while", "write", "update"}

AnimatedOnce(p) ==
  /\ CompletedNaturally(p)
  /\ \A i \in PropertyThreads :
       pthr[i].property_name = p => current_animations[p] = i

\* C27: animations of different attributes of one widget do not disturb
\* each other: when two attributes were animated by one call each and both
\* threads have terminated, each attribute holds the end value of its own
\* animation.
C27_FieldsEndAtOwnValues ==
  \A p, q \in Properties :
    (p # q /\ NoPropertyThreadRuns /\ AnimatedOnce(p) /\ AnimatedOnce(q)) =>
      /\ FEq(fields[p], Requests[pthr[current_animations[p]].request].end_value)
      /\ FEq(fields[q], Requests[pthr[current_animations[q]].request].end_value)

\* ---- AnimatedWidget.set_state and the AnimatedButton handlers ----

States == {"normal", "hover", "pressed", "disabled"}

\* self._gui_framework: None before render(), then the framework's name.
GuiFrameworks == {"none", "tkinter", "pyqt5"}

\* What the pointer test of _on_release finds under tkinter: the pointer
\* inside the widget, outside of it, or a winfo_ call that raises.
Pointers == {"inside", "outside", "error"}

\* trigger_callback(event_type, *args): every callback bound to the event
\* is called once, in the order of binding; an exception of a callback is
\* printed and the loop goes on.
trigger_callback(event_type, args) ==
  [i \in 1..callbacks[event_type] |-> <<event_type, i, args>>]

\* The effect of a call that does not go through set_state, or of a
\* set_state that finds the state unchanged.
NoStateChange ==
  [widget_state |-> widget_state, delivered |-> <<>>, appearance_updates |-> 0]

\* set_state(new_state), always notifying, without the test for a change.
set_state_AlwaysNotifies(new_state) ==
  [widget_state |-> new_state,
   delivered |-> trigger_callback("state_changed", <<widget_state, new_state>>),
   appearance_updates |-> 1]

\* set_state(new_state): if the state changes, it is assigned, the
\* 'state_changed' callbacks are triggered with (old_state, new_state) and
\* update_appearance() is called.
set_state(new_state) ==
  IF widget_state # new_state
    THEN [widget_state |-> new_state,
          delivered |-> trigger_callback("state_changed",
                                         <<widget_state, new_state>>),
          appearance_updates |-> 1]
    ELSE NoStateChange

\* The cycle of events of one click, in order.
ClickCycle ==
  <<"_on_hover_enter", "_on_press", "_on_click", "_on_release",
    "_on_hover_leave">>

\* The caller's position in the cycle after the call op, which delivered
\* the given callbacks: one step further if op is the next event of the
\* cycle, at step one if op starts a cycle on an enabled button, else
\* outside of it.
CycleAfter(op, delivered) ==
  LET clicks == SelectSeq(delivered, LAMBDA d : d[1] = "click")
  IN  IF cycle.step \in 1..4 /\ op = ClickCycle[cycle.step + 1]
        THEN [step |-> cycle.step + 1, clicks |-> cycle.clicks \o clicks]
      ELSE IF op = ClickCycle[1] /\ widget_state # "disabled"
        THEN [step |-> 1, clicks |-> clicks]
      ELSE NoCycle

\* The variables after a call op(arg) that went through set_state with the
\* effect st, then triggered more callbacks and started animations.
Handled(op, arg, st, more, animations) ==
  /\ widget_state' = st.widget_state
  /\ last_call' = [op |-> op, arg |-> arg,
                   delivered |-> st.delivered \o more,
                   animations |-> animations,
                   appearance_updates |-> st.appearance_updates]
  /\ cycle' = CycleAfter(op, st.delivered \o more)

\* A handler that returns at once because the button is disabled.
Ignored(op) ==
  /\ last_call' = [op |-> op, arg |-> "", delivered |-> <<>>,
                   animations |-> <<>>, appearance_updates |-> 0]
  /\ cycle' = CycleAfter(op, <<>>)
  /\ UNCHANGED <<widget_state, is_pressed>>

\* bind_callback(event_type, callback), on_click(callback)
BindCallback(event_type) ==
  /\ callbacks[event_type] < MaxCallbacks
  /\ callbacks' = [callbacks EXCEPT ![event_type] = @ + 1]
  /\ last_call' = [op |-> "bind_callback", arg |-> event_type,
                   delivered |-> <<>>, animations |-> <<>>,
                   appearance_updates |-> 0]
  /\ cycle' = NoCycle
  /\ UNCHANGED <<widget_state, is_pressed, button_config>>
  /\ UNCHANGED <<managerVars, easing_call, widgetVars, coreVars>>

\* A call of set_state(new_state) from outside the widget.
SetState(new_state) ==
  /\ Handled("set_state", new_state, set_state(new_state), <<>>, <<>>)
  /\ UNCHANGED <<is_pressed, callbacks, button_config>>
  /\ UNCHANGED <<managerVars, easing_call, widgetVars, coreVars>>

\* enable(): set_state("normal")
Enable ==
  /\ Handled("enable", "", set_state("normal"), <<>>, <<>>)
  /\ UNCHANGED <<is_pressed, callbacks, button_config>>
  /\ UNCHANGED <<managerVars, easing_call, widgetVars, coreVars>>

\* disable(): set_state("disabled")
Disable ==
  /\ Handled("disable", "", set_state("disabled"), <<>>, <<>>)
  /\ UNCHANGED <<is_pressed, callbacks, button_config>>
  /\ UNCHANGED <<managerVars, easing_call, widgetVars, coreVars>>

\* _on_hover_enter: state "hover", 'hover_enter' callbacks, the colour
\* animation and, if the style lifts the button, the lift animation.
OnHoverEnter ==
  /\ IF widget_state = "disabled"
       THEN Ignored("_on_hover_enter")
       ELSE /\ Handled("_on_hover_enter", "", set_state("hover"),
                       trigger_callback("hover_enter", <<>>),
                       IF button_config.hover_lift > 0
                         THEN <<"color", "lift">> ELSE <<"color">>)
            /\ UNCHANGED is_pressed
  /\ UNCHANGED <<callbacks, button_config>>
  /\ UNCHANGED <<managerVars, easing_call, widgetVars, coreVars>>

\* _on_hover_leave: state "normal", 'hover_leave' callbacks, the colour and
\* lift animations back.
OnHoverLeave ==
  /\ IF widget_state = "disabled"
       THEN Ignored("_on_hover_leave")
       ELSE /\ Handled("_on_hover_leave", "", set_state("normal"),
                       trigger_callback("hover_leave", <<>>),
                       <<"color", "lift">>)
            /\ UNCHANGED is_pressed
  /\ UNCHANGED <<callbacks, button_config>>
  /\ UNCHANGED <<managerVars, easing_call, widgetVars, coreVars>>

\* _on_press: _is_pressed True, state "pressed", the colour and scale
\* animations.
OnPress ==
  /\ IF widget_state = "disabled"
       THEN Ignored("_on_press")
       ELSE /\ is_pressed' = TRUE
            /\ Handled("_on_press", "", set_state("pressed"), <<>>,
                       <<"color", "scale">>)
  /\ UNCHANGED <<callbacks, button_config>>
  /\ UNCHANGED <<managerVars, easing_call, widgetVars, coreVars>>

\* The state _on_release goes to: under tkinter "hover" if the pointer is
\* still over the widget, "normal" if it is not or if asking raises; with
\* any other framework, or before render(), "hover".
ReleaseState(pointer) ==
  IF button_config.gui_framework = "tkinter"
    THEN IF pointer = "inside" THEN "hover" ELSE "normal"
    ELSE "hover"

\* _on_release without the assignment to _is_pressed.
OnRelease_KeepsPressed(pointer) ==
  /\ IF widget_state = "disabled"
       THEN Ignored("_on_release")
       ELSE /\ UNCHANGED is_pressed
            /\ Handled("_on_release", "", set_state(ReleaseState(pointer)),
                       <<>>, <<"color", "scale">>)
  /\ UNCHANGED <<callbacks, button_config>>
  /\ UNCHANGED <<managerVars, easing_call, widgetVars, coreVars>>

\* _on_release: _is_pressed False, the state the pointer decides, the colour
\* and scale animations back.
OnRelease(pointer) ==
  /\ IF widget_state = "disabled"
       THEN Ignored("_on_release")
       ELSE /\ is_pressed' = FALSE
            /\ Handled("_on_release", "", set_state(ReleaseState(pointer)),
                       <<>>, <<"color", "scale">>)
  /\ UNCHANGED <<callbacks, button_config>>
  /\ UNCHANGED <<managerVars, easing_call, widgetVars, coreVars>>

\* _on_click: the 'click' callbacks.
OnClick ==
  /\ IF widget_state = "disabled"
       THEN Ignored("_on_click")
       ELSE /\ Handled("_on_click", "", NoStateChange,
                       trigger_callback("click", <<>>), <<>>)
            /\ UNCHANGED is_pressed
  /\ UNCHANGED <<callbacks, button_config>>
  /\ UNCHANGED <<managerVars, easing_call, widgetVars, coreVars>>

\* A button after __init__, rendered with one of the frameworks or not at
\* all, with a style that lifts the button on hover or does not.
InitButton ==
  /\ ManagerIdle
  /\ easing_call = NoEasingCall
  /\ WidgetIdle
  /\ CoreIdle
  /\ widget_state = "normal"
  /\ is_pressed = FALSE
  /\ callbacks = [e \in Events |-> 0]
  /\ \E g \in GuiFrameworks, lift \in {0, 2} :
       button_config = [gui_framework |-> g, hover_lift |-> lift]
  /\ last_call = NoCall
  /\ cycle = NoCycle

NextButton ==
  \/ \E e \in Events : BindCallback(e)
  \/ \E st \in States : SetState(st)
  \/ Enable
  \/ Disable
  \/ OnHoverEnter
  \/ OnHoverLeave
  \/ OnPress
  \/ \E pointer \in Pointers : OnRelease(pointer)
  \/ OnClick

SpecButton == InitButton /\ [][NextButton]_vars

\* The event handlers of the button.
HandlerOps == {ClickCycle[n] : n \in DOMAIN ClickCycle}

\* The 'click' callbacks the last call invoked.
ClicksOf(call) == SelectSeq(call.delivered, LAMBDA d : d[1] = "click")

\* C28: while the button is disabled, every call of _on_hover_enter,
\* _on_hover_leave, _on_press, _on_release or _on_click leaves the state
\* "disabled" and _is_pressed False, invokes no 'click' callback and starts
\* no animation.
C28_DisabledIgnoresEvents ==
  [][(widget_state = "disabled" /\ last_call'.op \in HandlerOps) =>
       /\ widget_state' = "disabled"
       /\ is_pressed' = FALSE
       /\ ClicksOf(last_call') = <<>>
       /\ last_call'.animations = <<>>]_vars

\* Every callback bound to 'click' occurs exactly once in the deliveries.
EachClickOnce(clicks) ==
  /\ Len(clicks) = callbacks["click"]
  /\ \A i \in 1..callbacks["click"] :
       Cardinality({j \in DOMAIN clicks : clicks[j][2] = i}) = 1

\* C29: on a button that is not disabled, _on_press sets the state
\* "pressed" and _is_pressed True, _on_release clears _is_pressed, _on_click
\* invokes every bound 'click' callback exactly once, and _on_hover_leave
\* sets the state "normal"; after the cycle hover_enter, press, click,
\* release, hover_leave the state is "normal" and every bound 'click'
\* callback was invoked exactly once during the cycle.
C29_EnabledButtonFollowsEvents ==
  /\ [][widget_state # "disabled" =>
          /\ last_call'.op = "_on_press" =>
               (widget_state' = "pressed" /\ is_pressed' = TRUE)
          /\ last_call'.op = "_on_release" => is_pressed' = FALSE
          /\ last_call'.op = "_on_click" =>
               (EachClickOnce(ClicksOf(last_call')) /\ UNCHANGED widget_state)
          /\ last_call'.op = "_on_hover_leave" => widget_state' = "normal"]_vars
  /\ [](cycle.step = Len(ClickCycle) =>
          (widget_state = "normal" /\ ~is_pressed /\ EachClickOnce(cycle.clicks)))

\* The whole cycle was played on a button with one 'click' callback and one
\* 'state_changed' callback: the click was delivered once.
C29_Witness ==
  /\ cycle.step = Len(ClickCycle)
  /\ callbacks["click"] = 1
  /\ callbacks["state_changed"] = 1
  /\ cycle.clicks = <<(<<"click", 1, <<>> >>)>>
  /\ widget_state = "normal"
  /\ last_call.op = "_on_hover_leave"

\* The 'state_changed' callbacks a call invoked.
StateChangesOf(call) ==
  SelectSeq(call.delivered, LAMBDA d : d[1] = "state_changed")

\* C30: a call set_state(s) with s different from the current state assigns
\* s and invokes every bound 'state_changed' callback exactly once, with the
\* arguments (old_state, s); a call with s equal to the current state
\* invokes no callback, does not call update_appearance() and changes
\* nothing.
C30_SetStateNotifiesOnChange ==
  [][last_call'.op = "set_state" =>
       IF widget_state # last_call'.arg
         THEN /\ widget_state' = last_call'.arg
              /\ Len(StateChangesOf(last_call')) = callbacks["state_changed"]
              /\ \A i \in 1..callbacks["state_changed"] :
                   Cardinality({j \in DOMAIN last_call'.delivered :
                                  last_call'.delivered[j] =
                                    <<"state_changed", i,
                                      <<widget_state, last_call'.arg>> >>}) = 1
         ELSE /\ last_call'.delivered = <<>>
              /\ last_call'.appearance_updates = 0
              /\ UNCHANGED <<widget_state, is_pressed, callbacks>>]_vars

\* set_state("pressed") was called on a button in state "hover" with two
\* 'state_changed' callbacks bound, and both were invoked with (hover,
\* pressed).
C30_Witness ==
  /\ last_call.op = "set_state"
  /\ last_call.arg = "pressed"
  /\ widget_state = "pressed"
  /\ callbacks["state_changed"] = 2
  /\ last_call.delivered =
       <<(<<"state_changed", 1, <<"hover", "pressed">> >>),
         (<<"state_changed", 2, <<"hover", "pressed">> >>)>>

\* C33: a call of stop_all_animations() never raises, and when it is over
\* the registry is empty, whatever the runner threads remove from the
\* registry while the call iterates over it.
C33_StopAllNeverRaises ==
  caller.op = "stop_all" =>
    /\ caller.pc # "raised"
    /\ caller.pc = "idle" => get_active_count = 0

\* ---- calls on one id beside an animation of another id ----

\* animate("y", ...) with the repeated, delayed configuration, once: no
\* other call is ever made on "y".
CallBystander ==
  /\ \A i \in 1..nThreads : thr[i].id # "y"
  /\ CallAnimate("y", CfgTwice)

\* The steady program with a caller that starts "y" once and animates and
\* stops "x" as it likes.
NextBystander == CallerStep({"x"}, {CfgOnce}) \/ CallBystander \/ RunnerStep

SpecBystander == Init /\ [][NextBystander]_vars

\* The id of the call the caller begins or continues in this step.
StepOfCallOn(id) ==
  IF CanCall
    THEN ~(caller'.pc \in {"idle", "raised"}) /\ caller'.id = id
    ELSE caller.id = id

\* Nothing of the animations registered under another id than id changes
\* in this step: neither their registry entries nor their threads.
OtherIdsUntouched(id) ==
  /\ \A b \in Ids \ {id} : active_animations'[b] = active_animations[b]
  /\ \A i \in 1..nThreads : thr[i].id # id => thr'[i] = thr[i]

\* Thread i is the only instance ever started under its id, and no call was
\* made on that id since.
Bystander(i) ==
  /\ i <= nThreads
  /\ thr[i].cancelled = "no"
  /\ \A j \in 1..nThreads : thr[j].id = thr[i].id => j = i

\* C34: a step of stop_animation(id) or animate(id, ...) changes neither
\* the registry entry nor the thread of any other id, and a runner's exit
\* path removes no entry of another id; an animation on whose id no call is
\* made stays registered with do_run set while it runs, and its thread ends
\* by returning after its completion callback.
C34_OtherIdsUnaffected ==
  /\ [][\A id \in Ids :
          /\ (caller' # caller /\ StepOfCallOn(id)) => OtherIdsUntouched(id)
          /\ \A i \in 1..nThreads :
               (thr'[i] # thr[i] /\ caller' = caller /\ thr[i].id = id) =>
                 \A b \in Ids \ {id} :
                   active_animations'[b] = active_animations[b]]_vars
  /\ [](\A i \in Threads :
          Bystander(i) =>
            /\ InLoop(thr[i]) =>
                 (active_animations[thr[i].id] = i /\ thr[i].do_run)
            /\ HasEnded(thr[i]) => (thr[i].pc = "done" /\ thr[i].completed))

\* The animation of "y" has completed untouched while an instance of "x"
\* was stopped in its loop.
C34_Witness ==
  \E i, j \in 1..nThreads :
    /\ thr[i].id = "y" /\ Bystander(i) /\ thr[i].pc = "done"
    /\ thr[i].completed
    /\ thr[j].id = "x" /\ thr[j].cancelled = "stop"

\* ---- every started animation ends and leaves the registry ----

\* A tick after time.sleep(frame_duration) on a clock that is not set back:
\* the first tick of an iteration reads elapsed >= 0, every later one reads
\* more than the tick before it.
TickAdvance(i) ==
  \E e \in ElapsedRange(thr[i].cfg.duration) :
    /\ IF thr[i].progress = NoProgress THEN e >= 0 ELSE e > thr[i].progress
    /\ Tick(i, e, FALSE)

\* One step of runner thread i that the scheduler owes it.
RunnerAct(i) ==
  \/ Delay(i)
  \/ WhileCheck(i)
  \/ TickAdvance(i)
  \/ Cleanup(i)
  \/ CleanupDel(i)
  \/ Complete(i)

\* The program of a caller who animates and stops one id with a delayed
\* animation of one run whose completion callback raises, while an
\* update_callback may raise at any tick.
NextFair ==
  \/ CallerStep({"x"}, {CfgBoom})
  \/ \E i \in Threads : RunnerAct(i)
  \/ \E i \in Threads : TickUpdateRaises(i)

\* Every started thread is scheduled again and again.
SpecFair ==
  Init /\ [][NextFair]_vars /\ \A i \in Threads : WF_vars(RunnerAct(i))

\* Thread i was created by animate().
Started(i) == thr[i].pc # "none"

\* Thread i is the instance registered under some id.
Registered(i) == \E id \in Ids : active_animations[id] = i

\* C32: under fair scheduling every started animation with a positive
\* duration and a finite repeat count ends and is out of the registry from
\* some moment on, and no entry is ever that of a thread that has ended --
\* whether the animation ran to its end, was stopped, or its callbacks
\* raised.
C32_EveryAnimationEnds ==
  /\ [](\A i \in Threads : Registered(i) => ~HasEnded(thr[i]))
  /\ <>[](\A i \in Threads :
            Started(i) => HasEnded(thr[i]) /\ ~Registered(i))

\* A stopped thread has ended beside one whose completion callback raised,
\* and the registry is empty.
C32_Witness ==
  /\ get_active_count = 0
  /\ \E i, j \in Threads :
       /\ HasEnded(thr[i]) /\ thr[i].cancelled = "stop"
       /\ thr[j].pc = "done" /\ thr[j].completion_raised

\* ---- set_size ----

\* The sizes a caller asks for.
Widths == {80, 200}

Heights == {40, 60}

\* What set_size has done when it returns.
SizeReturns(w, h, a, start) ==
  [pc |-> "returned", width |-> w, height |-> h, animate |-> a,
   start_width |-> start.width, start_height |-> start.height]

\* set_size(width, height, animate) with animate False or animations
\* disabled: self.config.width = width; self.config.height = height;
\* self.update_appearance()
SetSizeDirect(w, h, a) ==
  /\ WidgetCallerCanCall
  /\ ~(a /\ enable_animations)
  /\ widget_config' = [width |-> w, height |-> h]
  /\ appearance_updates' = appearance_updates + 1
  /\ size_call' = SizeReturns(w, h, a, [width |-> 0, height |-> 0])
  /\ wcaller' = WidgetReturns("set_size", "", "")
  /\ UNCHANGED <<enable_animations, current_animations, nPropertyThreads,
                 pthr, fields>>
  /\ UNCHANGED <<bound_callbacks, trigger, update_callback>>
  /\ UNCHANGED <<managerVars, easing_call, buttonVars>>

\* set_size(width, height, animate=True) with animations enabled, up to the
\* test of animate_property for a running "size_animation":
\* start_width = self.config.width; start_height = self.config.height;
\* def update_size(progress): ...;
\* self.animate_property("size_animation", 0.0, 1.0, ...)
SetSizeCall(w, h) ==
  /\ WidgetCallerCanCall
  /\ enable_animations
  /\ size_call' = [pc |-> "animate", width |-> w, height |-> h,
                   animate |-> TRUE, start_width |-> widget_config.width,
                   start_height |-> widget_config.height]
  /\ wcaller' = [wcaller EXCEPT !.pc = "flag",
                                !.property_name = "size_animation",
                                !.request = "unit"]
  /\ UNCHANGED <<enable_animations, current_animations, nPropertyThreads,
                 pthr, fields, appearance_updates>>
  /\ UNCHANGED <<bound_callbacks, trigger, widget_config, update_callback>>
  /\ UNCHANGED <<managerVars, easing_call, buttonVars>>

\* self._current_animations["size_animation"].update_callback = update_size
\* after animate_property has returned; set_size returns.  update_size is
\* the closure over width, height, start_width and start_height.
SetSizeAttach ==
  /\ size_call.pc = "animate"
  /\ wcaller.pc = "idle"
  /\ update_callback' =
       [update_callback EXCEPT ![current_animations["size_animation"]] =
          [bound |-> TRUE, width |-> size_call.width,
           height |-> size_call.height,
           start_width |-> size_call.start_width,
           start_height |-> size_call.start_height]]
  /\ size_call' = [size_call EXCEPT !.pc = "returned"]
  /\ UNCHANGED <<bound_callbacks, trigger, widget_config>>
  /\ UNCHANGED <<managerVars, easing_call, widgetVars, buttonVars>>

\* A widget whose caller sets its size, animated or not.
NextSize ==
  \/ \E w \in Widths, h \in Heights, a \in BOOLEAN : SetSizeDirect(w, h, a)
  \/ \E w \in Widths, h \in Heights : SetSizeCall(w, h)
  \/ AnimateFlag
  \/ AnimateStart
  \/ SetSizeAttach
  \/ PropertyThreadStep

SpecSize == InitWidget /\ [][NextSize]_vars

\* The last set_size call has returned and asked for this size.
SizeAsked == [width |-> size_call.width, height |-> size_call.height]

\* The last set_size call took the animated branch.
SizeAnimated == size_call.animate /\ enable_animations

\* C35: once the size animation started by set_size(w, h, animate=True)
\* with animations enabled has run to its last frame, config.width is w
\* and config.height is h, as they are as soon as set_size(w, h,
\* animate=False) has returned.
C35_AnimatedSizeReachesTarget ==
  size_call.pc = "returned" =>
    /\ ~SizeAnimated => widget_config = SizeAsked
    /\ (SizeAnimated /\ CompletedNaturally("size_animation"))
         => widget_config = SizeAsked

\* ---- bind_callback and trigger_callback ----

\* What a bound callback does when it is called: it returns, or it raises
\* an exception of a subclass of Exception.
Behaviours == {"returns", "raises"}

\* The event types the caller binds and triggers, and one that is no key
\* of self._callbacks.
TriggeredEvents == {"click", "hover_enter"}

UnknownEvent == "resize"

\* No trigger_callback call is running.
TriggerCanCall == trigger.pc \in {"idle", "returned"}

\* bind_callback(event_type, callback):
\* if event_type in self._callbacks: self._callbacks[event_type].append(callback)
Bind(event_type, behaviour) ==
  /\ TriggerCanCall
  /\ Len(bound_callbacks[event_type]) < MaxCallbacks
  /\ bound_callbacks' =
       [bound_callbacks EXCEPT ![event_type] = Append(@, behaviour)]
  /\ UNCHANGED <<trigger, widget_config, size_call, update_callback>>
  /\ UNCHANGED <<managerVars, easing_call, widgetVars, buttonVars>>

\* trigger_callback(event_type): if event_type in self._callbacks, the
\* iteration over self._callbacks[event_type] begins; otherwise the call
\* returns.
CallTrigger(event_type) ==
  /\ TriggerCanCall
  /\ trigger' = [NoTrigger EXCEPT
                   !.pc = IF event_type \in DOMAIN bound_callbacks
                            THEN "loop" ELSE "returned",
                   !.event_type = event_type, !.index = 1]
  /\ UNCHANGED <<bound_callbacks, widget_config, size_call, update_callback>>
  /\ UNCHANGED <<managerVars, easing_call, widgetVars, buttonVars>>

\* The callback the loop has come to.
NextCallback == bound_callbacks[trigger.event_type][trigger.index]

\* The loop has callbacks left.
TriggerHasNext ==
  /\ trigger.pc = "loop"
  /\ trigger.index <= Len(bound_callbacks[trigger.event_type])

\* One iteration whose exception leaves trigger_callback.
TriggerNext_Propagates ==
  /\ TriggerHasNext
  /\ trigger' = [trigger EXCEPT
                   !.called = Append(@, trigger.index),
                   !.index = @ + 1,
                   !.pc = IF NextCallback = "raises" THEN "raised" ELSE @]
  /\ UNCHANGED <<bound_callbacks, widget_config, size_call, update_callback>>
  /\ UNCHANGED <<managerVars, easing_call, widgetVars, buttonVars>>

\* One iteration: try: callback(*args, **kwargs)
\* except Exception as e: print(f"Error in callback {event_type}: {e}")
TriggerNext ==
  /\ TriggerHasNext
  /\ trigger' = [trigger EXCEPT
                   !.called = Append(@, trigger.index),
                   !.index = @ + 1,
                   !.printed = IF NextCallback = "raises" THEN @ + 1 ELSE @]
  /\ UNCHANGED <<bound_callbacks, widget_config, size_call, update_callback>>
  /\ UNCHANGED <<managerVars, easing_call, widgetVars, buttonVars>>

\* The list is exhausted: trigger_callback returns.
TriggerReturn ==
  /\ trigger.pc = "loop"
  /\ trigger.index > Len(bound_callbacks[trigger.event_type])
  /\ trigger' = [trigger EXCEPT !.pc = "returned"]
  /\ UNCHANGED <<bound_callbacks, widget_config, size_call, update_callback>>
  /\ UNCHANGED <<managerVars, easing_call, widgetVars, buttonVars>>

\* A widget whose caller binds callbacks and triggers events.
NextTrigger ==
  \/ \E e \in TriggeredEvents, b \in Behaviours : Bind(e, b)
  \/ \E e \in TriggeredEvents \cup {UnknownEvent} : CallTrigger(e)
  \/ TriggerNext
  \/ TriggerReturn

SpecTrigger == Init /\ [][NextTrigger]_vars

\* The callbacks bound to the triggered event (none for an unknown event).
BoundToTriggered ==
  IF trigger.event_type \in DOMAIN bound_callbacks
    THEN bound_callbacks[trigger.event_type] ELSE <<>>

\* The number of callbacks among the first n of sequence s that raise.
Raising(s, n) == Cardinality({i \in 1..n : s[i] = "raises"})

\* The callbacks called so far are those bound before the position of the
\* loop, in binding order, and one line was printed for each that raised.
CalledInBindingOrder ==
  /\ trigger.called = [i \in 1..(trigger.index - 1) |-> i]
  /\ trigger.index - 1 <= Len(BoundToTriggered)
  /\ trigger.printed = Raising(BoundToTriggered, trigger.index - 1)

\* C31: trigger_callback lets no exception of a bound callback out; at any
\* moment of the call the callbacks called are those bound before the
\* position of the loop, in binding order, whether or not one of them
\* raised, and when the call returns every bound callback has been called.
C31_TriggerCallsEveryCallback ==
  /\ [](trigger.pc # "raised" /\ CalledInBindingOrder)
  /\ [][trigger.pc = "loop" /\ trigger'.pc = "returned"
          => Len(trigger'.called) = Len(BoundToTriggered)]_vars

\* A call has returned after a callback that raised and the callback bound
\* after it were both called.
C31_Witness ==
  /\ trigger.pc = "returned"
  /\ Len(BoundToTriggered) >= 2
  /\ BoundToTriggered[1] = "raises"
  /\ trigger.called = [i \in 1..Len(BoundToTriggered) |-> i]

====
